---- MODULE Spec2Model ----
(***************************************************************************)
(* Model of the mismatch parser (utils/mismatch.ts) and of the tree walk   *)
(* renderJsonScore (DocumentResultsViewer.tsx) of llm-extraction-evaluator *)
(*                                                                         *)
(* Strings are sequences of tokens.  The characters that the code's        *)
(* regular expressions and string operations distinguish are one token     *)
(* each: "[", "]", "|", ".", ":", "/", " ", "\\", "(", ")", the quote and  *)
(* the ten digits.  A maximal run of other characters (letters, "_") is    *)
(* one word token; two word tokens are never adjacent in an input.         *)
(*                                                                         *)
(* A JSON value is a record [t, v]: t is "str", "num", "null", "undef",    *)
(* "arr" or "obj"; v is the token string of a primitive, the sequence of   *)
(* elements of an array, or the sequence of [k, c] (key, child) pairs of   *)
(* an object in Object.keys order.                                         *)
(***************************************************************************)
EXTENDS Integers, Sequences, FiniteSets, TLC

(***************************************************************************)
(* Bounds of the model.                                                    *)
(***************************************************************************)
MaxMismatches == 2

MaxArrayLen == 2

\* save requests in flight at one time
MaxRequests == 1

(***************************************************************************)
(* JavaScript string primitives on token strings.                          *)
(***************************************************************************)
Digits == {"0", "1", "2", "3", "4", "5", "6", "7", "8", "9"}

Whitespace == {" ", "\n"}

\* the characters that escapeForRegex's class [.*+?^${}()|[\]\\] names
RegexSpecials == {".", "*", "+", "?", "^", "$", "{", "}", "(", ")", "|", "[", "]", "\\"}

\* String.prototype.toUpperCase on one token
ToUpperTok(c) ==
  CASE c \in {"fp", "Fp", "fP"} -> "FP"
    [] c \in {"fn", "Fn", "fN"} -> "FN"
    [] c \in {"daily", "Daily"} -> "DAILY"
    [] c \in {"mg", "Mg"} -> "MG"
    [] OTHER -> c

\* String.prototype.toLowerCase on one token
ToLowerTok(c) ==
  CASE c \in {"FP", "Fp", "fP"} -> "fp"
    [] c \in {"FN", "Fn", "fN"} -> "fn"
    [] c \in {"Daily", "DAILY"} -> "daily"
    [] c \in {"Weekly"} -> "weekly"
    [] c \in {"High", "HIGH"} -> "high"
    [] c \in {"MG", "Mg"} -> "mg"
    [] c \in {"Jane"} -> "jane"
    [] c \in {"Bob"} -> "bob"
    [] c \in {"Penicillin"} -> "penicillin"
    [] c \in {"Aspirin"} -> "aspirin"
    [] OTHER -> c

toLowerCase(s) == [i \in 1..Len(s) |-> ToLowerTok(s[i])]

\* s.slice(from - 1): the suffix of s that starts at position from
Drop(s, from) == SubSeq(s, from, Len(s))

\* position of the first token of s at or after from that lies in set; 0 if none
FirstIn(s, from, set) ==
  LET hits == {i \in from..Len(s) : s[i] \in set}
  IN  IF hits = {} THEN 0 ELSE CHOOSE i \in hits : \A j \in hits : i <= j

\* s.indexOf(pat) (1-based; 0 when pat does not occur)
IndexOf(s, pat) ==
  LET hits == {i \in 1..(Len(s) - Len(pat) + 1) : SubSeq(s, i, i + Len(pat) - 1) = pat}
  IN  IF hits = {} THEN 0 ELSE CHOOSE i \in hits : \A j \in hits : i <= j

\* s.includes(pat)
Includes(s, pat) == IndexOf(s, pat) > 0

\* s.replace(pat, by) with a string pattern: the first occurrence only
ReplaceFirst(s, pat, by) ==
  LET i == IndexOf(s, pat)
  IN  IF i = 0 THEN s ELSE SubSeq(s, 1, i - 1) \o by \o Drop(s, i + Len(pat))

\* String.prototype.trim
RECURSIVE TrimLeft(_)
TrimLeft(s) ==
  IF s # <<>> /\ Head(s) \in Whitespace THEN TrimLeft(Tail(s)) ELSE s

RECURSIVE TrimRight(_)
TrimRight(s) ==
  IF s # <<>> /\ s[Len(s)] \in Whitespace THEN TrimRight(SubSeq(s, 1, Len(s) - 1)) ELSE s

Trim(s) == TrimRight(TrimLeft(s))

\* s.split(sep) for a one-character separator
RECURSIVE Split(_, _)
Split(s, sep) ==
  LET i == FirstIn(s, 1, {sep})
  IN  IF i = 0 THEN <<s>> ELSE <<SubSeq(s, 1, i - 1)>> \o Split(Drop(s, i + 1), sep)

\* parseInt of a token string: the value of its leading digits, -1 for NaN
DigitVal(c) ==
  CASE c = "0" -> 0 [] c = "1" -> 1 [] c = "2" -> 2 [] c = "3" -> 3 [] c = "4" -> 4
    [] c = "5" -> 5 [] c = "6" -> 6 [] c = "7" -> 7 [] c = "8" -> 8 [] OTHER -> 9

RECURSIVE ParseDigits(_, _)
ParseDigits(s, acc) ==
  IF s # <<>> /\ Head(s) \in Digits
  THEN ParseDigits(Tail(s), 10 * acc + DigitVal(Head(s)))
  ELSE acc

parseInt(s) ==
  IF s # <<>> /\ Head(s) \in Digits THEN ParseDigits(s, 0) ELSE -1

\* the decimal digits of a template-literal array index `${i}`
DigitTok(d) ==
  CASE d = 0 -> "0" [] d = 1 -> "1" [] d = 2 -> "2" [] d = 3 -> "3" [] d = 4 -> "4"
    [] d = 5 -> "5" [] d = 6 -> "6" [] d = 7 -> "7" [] d = 8 -> "8" [] OTHER -> "9"

RECURSIVE IndexStr(_)
IndexStr(i) ==
  IF i < 10 THEN <<DigitTok(i)>> ELSE IndexStr(i \div 10) \o <<DigitTok(i % 10)>>

(***************************************************************************)
(* Regular expressions built at run time (new RegExp(regexStr)).  The      *)
(* source is a token string: "\\" followed by "d" is the digit class,      *)
(* "\\" followed by any other token is that token taken literally, "+"     *)
(* after the digit class is its quantifier, "^" and "$" are the anchors.   *)
(***************************************************************************)
\* escapeForRegex: a backslash before every special character
RECURSIVE escapeForRegex(_)
escapeForRegex(s) ==
  IF s = <<>> THEN <<>>
  ELSE (IF Head(s) \in RegexSpecials THEN <<"\\", Head(s)>> ELSE <<Head(s)>>)
       \o escapeForRegex(Tail(s))

\* the template text \\[\\d+\\] of the code: "[", one or more digits, "]"
IndexPattern == <<"\\", "[", "\\", "d", "+", "\\", "]">>

\* new RegExp(src) throws SyntaxError on an unbalanced group
RECURSIVE GroupsBalanced(_, _)
GroupsBalanced(src, depth) ==
  IF src = <<>> THEN depth = 0
  ELSE IF Head(src) = "\\" THEN Len(src) >= 2 /\ GroupsBalanced(Drop(src, 3), depth)
  ELSE IF Head(src) = "(" THEN GroupsBalanced(Tail(src), depth + 1)
  ELSE IF Head(src) = ")" THEN depth > 0 /\ GroupsBalanced(Tail(src), depth - 1)
  ELSE GroupsBalanced(Tail(src), depth)

RegExpCompiles(src) == GroupsBalanced(src, 0)

\* does the pattern re (anchor "^" already consumed) match a prefix of s
RECURSIVE MatchHere(_, _)
MatchHere(re, s) ==
  IF re = <<>> THEN TRUE
  ELSE IF re = <<"$">> THEN s = <<>>
  ELSE IF Head(re) = "\\" /\ Len(re) >= 2
  THEN IF re[2] = "d"
       THEN IF Len(re) >= 3 /\ re[3] = "+"
            THEN /\ s # <<>>
                 /\ Head(s) \in Digits
                 /\ (MatchHere(re, Tail(s)) \/ MatchHere(Drop(re, 4), Tail(s)))
            ELSE s # <<>> /\ Head(s) \in Digits /\ MatchHere(Drop(re, 3), Tail(s))
       ELSE s # <<>> /\ Head(s) = re[2] /\ MatchHere(Drop(re, 3), Tail(s))
  ELSE s # <<>> /\ Head(s) = Head(re) /\ MatchHere(Tail(re), Tail(s))

\* RegExp.prototype.test (no g flag, so no lastIndex state)
RegExpTest(src, s) ==
  IF src # <<>> /\ Head(src) = "^"
  THEN MatchHere(Tail(src), s)
  ELSE \E i \in 1..(Len(s) + 1) : MatchHere(src, Drop(s, i))

(***************************************************************************)
(* The regular-expression literals of buildMismatchInfo, each computed as  *)
(* the JavaScript engine computes it (leftmost match, greedy quantifiers). *)
(***************************************************************************)
\* position of the first token of s at or after from that is not in set
FirstNotIn(s, from, set) ==
  LET hits == {i \in from..Len(s) : s[i] \notin set}
  IN  IF hits = {} THEN 0 ELSE CHOOSE i \in hits : \A j \in hits : i <= j

Least(S) == CHOOSE i \in S : \A j \in S : i <= j

Greatest(S) == CHOOSE i \in S : \A j \in S : i >= j

\* m.match(/\[(FP|FN)\]/i): the tag, in any letter case, anywhere in m
TypeMatch(m) ==
  LET hits == {i \in 1..(Len(m) - 2) :
                 m[i] = "[" /\ ToUpperTok(m[i + 1]) \in {"FP", "FN"} /\ m[i + 2] = "]"}
  IN  IF hits = {} THEN [ok |-> FALSE, tag |-> ""]
      ELSE [ok |-> TRUE, tag |-> m[Least(hits) + 1]]

\* m.match(/\[(FP|FN)\]\s+([^:]+):/): an upper-case tag anywhere in m, white
\* space, one or more characters other than ":", and ":"
PathMatch(m) ==
  LET colon(i) == FirstIn(m, i + 4, {":"})
      hits == {i \in 1..(Len(m) - 2) :
                 /\ m[i] = "[" /\ m[i + 1] \in {"FP", "FN"} /\ m[i + 2] = "]"
                 /\ i + 3 <= Len(m) /\ m[i + 3] \in Whitespace
                 /\ colon(i) >= i + 5}
  IN  IF hits = {} THEN [ok |-> FALSE, tag |-> "", path |-> <<>>]
      ELSE LET i == Least(hits)
               c == colon(i)
               k == FirstNotIn(m, i + 3, Whitespace)
           IN  [ok |-> TRUE, tag |-> m[i + 1],
                path |-> IF k >= c THEN SubSeq(m, c - 1, c - 1) ELSE SubSeq(m, k, c - 1)]

\* the compound form never tried
CompoundMatch_Never(p) == [ok |-> FALSE, g1 |-> <<>>, g2 |-> <<>>, g3 |-> <<>>, g4 |-> <<>>]

\* rawPath.match(/^(.+)\[\|([^\|]+)\|\]\.([^.\[]+)\[([^\]]+)\]$/)
CompoundMatch(p) ==
  LET n == Len(p)
      x2(b) == FirstIn(p, b + 3, {"|"})
      f2(b) == FirstIn(p, x2(b) + 3, {".", "["})
      fits(b) == /\ b + 2 <= n /\ p[b + 1] = "[" /\ p[b + 2] = "|"
                 /\ x2(b) > b + 3
                 /\ x2(b) + 2 <= n /\ p[x2(b) + 1] = "]" /\ p[x2(b) + 2] = "."
                 /\ f2(b) > x2(b) + 3 /\ p[f2(b)] = "["
                 /\ f2(b) + 1 <= n - 1 /\ FirstIn(p, f2(b) + 1, {"]"}) = n
      hits == {b \in 1..n : fits(b)}
  IN  IF hits = {} THEN [ok |-> FALSE, g1 |-> <<>>, g2 |-> <<>>, g3 |-> <<>>, g4 |-> <<>>]
      ELSE LET b == Greatest(hits)
           IN  [ok |-> TRUE,
                g1 |-> SubSeq(p, 1, b),
                g2 |-> SubSeq(p, b + 3, x2(b) - 1),
                g3 |-> SubSeq(p, x2(b) + 3, f2(b) - 1),
                g4 |-> SubSeq(p, f2(b) + 1, n - 1)]

\* rawPath.match(/^(.+)\[\|([^\|]+)\|\]\.([^.]+)$/)
PipeBracketMatch(p) ==
  LET n == Len(p)
      x2(b) == FirstIn(p, b + 3, {"|"})
      fits(b) == /\ b + 2 <= n /\ p[b + 1] = "[" /\ p[b + 2] = "|"
                 /\ x2(b) > b + 3
                 /\ x2(b) + 3 <= n /\ p[x2(b) + 1] = "]" /\ p[x2(b) + 2] = "."
                 /\ FirstIn(p, x2(b) + 3, {"."}) = 0
      hits == {b \in 1..n : fits(b)}
  IN  IF hits = {} THEN [ok |-> FALSE, g1 |-> <<>>, g2 |-> <<>>, g3 |-> <<>>]
      ELSE LET b == Greatest(hits)
           IN  [ok |-> TRUE,
                g1 |-> SubSeq(p, 1, b),
                g2 |-> SubSeq(p, b + 3, x2(b) - 1),
                g3 |-> SubSeq(p, x2(b) + 3, n)]

\* rawPath.match(/([^\.\[\]]+)\[([^\]]+)\]$/): group 2, the trailing bracket's text
BracketMatch(p) ==
  LET n == Len(p)
      hits == {q \in 2..(n - 2) :
                 /\ p[q] = "[" /\ p[q - 1] \notin {".", "[", "]"}
                 /\ FirstIn(p, q + 1, {"]"}) = n}
  IN  IF hits = {} THEN [ok |-> FALSE, g2 |-> <<>>]
      ELSE [ok |-> TRUE, g2 |-> SubSeq(p, Least(hits) + 1, n - 1)]

\* rawPath.replace(/\[([^\]]+)\]$/, '')
StripTrailingBracket(p) ==
  LET n == Len(p)
      hits == {q \in 1..(n - 2) : p[q] = "[" /\ FirstIn(p, q + 1, {"]"}) = n}
  IN  IF hits = {} THEN p ELSE SubSeq(p, 1, Least(hits) - 1)

\* s.replace(/\[C+\]/g, '') where the class C excludes the tokens of stop
\* ("]" is always in stop): every bracket whose text is one or more C
RECURSIVE StripBracketed(_, _)
StripBracketed(s, stop) ==
  IF s = <<>> THEN <<>>
  ELSE LET e == FirstIn(s, 2, stop)
       IN  IF Head(s) = "[" /\ e > 2 /\ s[e] = "]"
           THEN StripBracketed(Drop(s, e + 1), stop)
           ELSE <<Head(s)>> \o StripBracketed(Tail(s), stop)

\* s.replace(/\[\d+\]/g, ''): every bracket whose text is one or more digits
RECURSIVE StripIndices(_)
StripIndices(s) ==
  IF s = <<>> THEN <<>>
  ELSE LET e == FirstNotIn(s, 2, Digits)
       IN  IF Head(s) = "[" /\ e > 2 /\ s[e] = "]"
           THEN StripIndices(Drop(s, e + 1))
           ELSE <<Head(s)>> \o StripIndices(Tail(s))

(***************************************************************************)
(* buildMismatchInfo: the body of mismatches.forEach for one string m,     *)
(* applied to the MismatchInfo built so far.                               *)
(***************************************************************************)
Sentinel == <<"__ARRAY_IDX__">>

Placeholder == <<"[", "|", "|", "]">>

\* valueBased.push(entry) inside try { new RegExp(regexStr) } catch { }
PushValueBased(info, type, regexStr, bracketValue) ==
  IF RegExpCompiles(regexStr)
  THEN [info EXCEPT !.valueBased =
          Append(@, [type |-> type, basePathRe |-> regexStr, bracketValue |-> bracketValue])]
  ELSE info

\* the guard inverted: if (pathMap[key]) pathMap[key] = type
SetIfAbsent_Inverted(pathMap, key, type) ==
  IF key \in DOMAIN pathMap THEN [pathMap EXCEPT ![key] = type] ELSE pathMap

\* no guard: pathMap[key] = type, the last writer wins
SetIfAbsent_Overwrite(pathMap, key, type) ==
  [x \in DOMAIN pathMap \cup {key} |-> IF x = key THEN type ELSE pathMap[x]]

\* if (!pathMap[key]) pathMap[key] = type
SetIfAbsent(pathMap, key, type) ==
  IF key \in DOMAIN pathMap THEN pathMap
  ELSE [x \in DOMAIN pathMap \cup {key} |-> IF x = key THEN type ELSE pathMap[x]]

\* the regexStr of the compound and pipe-only branches
IndexedFieldRegex(basePath, fieldName) ==
  <<"^">> \o escapeForRegex(basePath) \o IndexPattern \o <<"\\", ".">>
          \o escapeForRegex(fieldName) \o <<"$">>

\* the bracket-at-end regexStr with the placeholder left as it is
BracketRegex_KeepsPlaceholder(rawPath) ==
  <<"^">> \o escapeForRegex(StripTrailingBracket(rawPath)) \o <<"$">>

\* the regexStr of the bracket-at-end branch
BracketRegex(rawPath) ==
  LET baseField == StripTrailingBracket(rawPath)
      withSentinel == ReplaceFirst(baseField, Placeholder, Sentinel)
  IN  <<"^">> \o ReplaceFirst(escapeForRegex(withSentinel), Sentinel, IndexPattern) \o <<"$">>

\* which branch of the forEach body handles m
Branch(m) ==
  LET typeMatch == TypeMatch(m)
      pathMatch == PathMatch(m)
      rawPath == Trim(pathMatch.path)
  IN  IF ~typeMatch.ok \/ ~pathMatch.ok THEN "skip"
      ELSE IF CompoundMatch(rawPath).ok THEN "compound"
      ELSE IF PipeBracketMatch(rawPath).ok THEN "pipe"
      ELSE IF BracketMatch(rawPath).ok THEN "bracket"
      ELSE "generic"

RawPath(m) == Trim(PathMatch(m).path)

HighlightTypeOf(m) == ToUpperTok(TypeMatch(m).tag)

\* the "Generic path-level mismatch" branch
GenericBranch(info, type, rawPath) ==
  LET strippedAll == StripBracketed(rawPath, {"]"})
      withoutNonNumeric == StripBracketed(rawPath, Digits \cup {"]"})
  IN  [info EXCEPT !.pathMap =
         SetIfAbsent(SetIfAbsent(@, strippedAll, type), withoutNonNumeric, type)]

\* the bracket-at-end branch without its else: the generic branch runs as well
BracketBranch_FallThrough(info, type, rawPath) ==
  GenericBranch(PushValueBased(info, type, BracketRegex(rawPath), BracketMatch(rawPath).g2),
                type, rawPath)

\* the "original format" branch: if (bracketMatch) { ... } else { generic }
BracketBranch(info, type, rawPath) ==
  PushValueBased(info, type, BracketRegex(rawPath), BracketMatch(rawPath).g2)

ProcessMismatch(m, info) ==
  LET type == HighlightTypeOf(m)
      rawPath == RawPath(m)
      branch == Branch(m)
      compoundMatch == CompoundMatch(rawPath)
      pipeBracketMatch == PipeBracketMatch(rawPath)
  IN  CASE branch = "skip" -> info
        [] branch = "compound" ->
             PushValueBased(info, type,
                            IndexedFieldRegex(compoundMatch.g1, compoundMatch.g3),
                            compoundMatch.g2 \o <<"|">> \o compoundMatch.g4)
        [] branch = "pipe" ->
             PushValueBased(info, type,
                            IndexedFieldRegex(pipeBracketMatch.g1, pipeBracketMatch.g3),
                            pipeBracketMatch.g2)
        [] branch = "bracket" -> BracketBranch(info, type, rawPath)
        [] OTHER -> GenericBranch(info, type, rawPath)

EmptyMismatchInfo == [pathMap |-> <<>>, valueBased |-> <<>>]

RECURSIVE BuildFrom(_, _, _)
BuildFrom(mismatches, i, info) ==
  IF i > Len(mismatches) THEN info
  ELSE BuildFrom(mismatches, i + 1, ProcessMismatch(mismatches[i], info))

\* buildMismatchInfo(mismatches) as one function
buildMismatchInfo(mismatches) == BuildFrom(mismatches, 1, EmptyMismatchInfo)

(***************************************************************************)
(* JSON values and the path helpers of the tree walk.                      *)
(***************************************************************************)
Str(s) == [t |-> "str", v |-> s]

Num(s) == [t |-> "num", v |-> s]

Null == [t |-> "null", v |-> <<>>]

Undefined == [t |-> "undef", v |-> <<>>]

Arr(elems) == [t |-> "arr", v |-> elems]

Obj(pairs) == [t |-> "obj", v |-> pairs]

\* typeof x === 'object' (true of null as well)
TypeofObject(x) == x.t \in {"obj", "arr", "null"}

\* JavaScript truthiness of a JSON value
Truthy(x) ==
  CASE x.t \in {"undef", "null"} -> FALSE
    [] x.t = "str" -> x.v # <<>>
    [] x.t = "num" -> x.v # <<"0">>
    [] OTHER -> TRUE

\* Object.keys(x) of a plain object
ObjectKeys(x) == IF x.t = "obj" THEN [i \in 1..Len(x.v) |-> x.v[i].k] ELSE <<>>

\* x?.[key] for a property name
Get(x, key) ==
  IF x.t = "obj" /\ \E i \in 1..Len(x.v) : x.v[i].k = key
  THEN x.v[CHOOSE i \in 1..Len(x.v) : x.v[i].k = key].c
  ELSE Undefined

\* x?.[index] for a number (NaN is -1)
GetIndex(x, index) ==
  IF x.t = "arr" /\ index >= 0 /\ index < Len(x.v) THEN x.v[index + 1] ELSE Undefined

\* String(v) of a primitive
StringOf(x) == x.v

\* JSON.stringify(x); undefined stays the value undefined, written <<"undefined">>
RECURSIVE JsonStringify(_)
RECURSIVE StringifyItems(_, _)
JsonStringify(x) ==
  CASE x.t = "undef" -> <<"undefined">>
    [] x.t = "null" -> <<"null">>
    [] x.t = "num" -> x.v
    [] x.t = "str" -> <<"\"">> \o x.v \o <<"\"">>
    [] x.t = "arr" -> <<"[">> \o StringifyItems(x, 1) \o <<"]">>
    [] OTHER -> <<"{">> \o StringifyItems(x, 1) \o <<"}">>

StringifyItems(x, i) ==
  IF i > Len(x.v) THEN <<>>
  ELSE (IF i > 1 THEN <<",">> ELSE <<>>)
       \o (IF x.t = "arr"
           THEN (IF x.v[i].t = "undef" THEN <<"null">> ELSE JsonStringify(x.v[i]))
           ELSE <<"\"">> \o x.v[i].k \o <<"\"", ":">> \o JsonStringify(x.v[i].c))
       \o StringifyItems(x, i + 1)

\* one step of getValueAtPath's loop: current after the path part
GetPart(current, part) ==
  IF Includes(part, <<"[">>) /\ Includes(part, <<"]">>)
  THEN LET pieces == Split(part, "[")
           key == pieces[1]
           indexStr == pieces[2]
           index == parseInt(ReplaceFirst(indexStr, <<"]">>, <<>>))
       IN  GetIndex(Get(current, key), index)
  ELSE Get(current, part)

RECURSIVE GetParts(_, _, _)
GetParts(current, parts, i) ==
  IF i > Len(parts) THEN current
  ELSE LET next == GetPart(current, parts[i])
       IN  IF next.t = "undef" THEN Undefined ELSE GetParts(next, parts, i + 1)

getValueAtPath(obj, path) ==
  IF ~Truthy(obj) \/ path = <<>> THEN Undefined
  ELSE GetParts(obj, Split(path, "."), 1)

\* filterGroundTruthByTypes(groundTruth, extractionTypes): the keys named by
\* extractionTypes that groundTruth has, in the order of extractionTypes
filterGroundTruthByTypes(groundTruth, extractionTypes) ==
  IF ~Truthy(groundTruth) THEN Obj(<<>>)
  ELSE LET present == SelectSeq(extractionTypes,
                                LAMBDA key : groundTruth.t = "obj" /\ Get(groundTruth, key).t # "undef")
       IN  Obj([i \in 1..Len(present) |-> [k |-> present[i], c |-> Get(groundTruth, present[i])]])

\* the indentation of JSON.stringify(x, null, 2) at a nesting level
RECURSIVE Indent(_)
Indent(level) == IF level = 0 THEN <<>> ELSE <<" ", " ">> \o Indent(level - 1)

\* JSON.stringify(x, null, 2)
RECURSIVE StringifyPretty(_, _)
RECURSIVE PrettyItems(_, _, _)
StringifyPretty(x, level) ==
  CASE x.t \in {"undef", "null", "num", "str"} -> JsonStringify(x)
    [] x.v = <<>> -> IF x.t = "arr" THEN <<"[", "]">> ELSE <<"{", "}">>
    [] x.t = "arr" ->
         <<"[", "\n">> \o PrettyItems(x, 1, level + 1) \o <<"\n">> \o Indent(level) \o <<"]">>
    [] OTHER ->
         <<"{", "\n">> \o PrettyItems(x, 1, level + 1) \o <<"\n">> \o Indent(level) \o <<"}">>

PrettyItems(x, i, level) ==
  IF i > Len(x.v) THEN <<>>
  ELSE (IF i > 1 THEN <<",", "\n">> ELSE <<>>)
       \o Indent(level)
       \o (IF x.t = "arr"
           THEN (IF x.v[i].t = "undef" THEN <<"null">> ELSE StringifyPretty(x.v[i], level))
           ELSE <<"\"">> \o x.v[i].k \o <<"\"", ":", " ">> \o StringifyPretty(x.v[i].c, level))
       \o PrettyItems(x, i + 1, level)

\* JSON.parse: a recursive-descent reading of the text from position i; ok is
\* FALSE for a SyntaxError, next is the position after the value
ParseFailure == [ok |-> FALSE, value |-> Undefined, next |-> 0]

\* position of the first token at or after i that is not white space, 0 if none
SkipWhitespace(s, i) == FirstNotIn(s, i, Whitespace)

\* a string literal whose opening quote is at position j
ParseString(s, j) ==
  LET close == FirstIn(s, j + 1, {"\""})
  IN  IF close = 0 THEN ParseFailure
      ELSE [ok |-> TRUE, value |-> Str(SubSeq(s, j + 1, close - 1)), next |-> close + 1]

\* a member added to an object; a repeated key keeps its place and takes the
\* later value
SetMember(members, k, c) ==
  IF \E i \in 1..Len(members) : members[i].k = k
  THEN [i \in 1..Len(members) |-> IF members[i].k = k THEN [k |-> k, c |-> c] ELSE members[i]]
  ELSE Append(members, [k |-> k, c |-> c])

RECURSIVE ParseValue(_, _)
RECURSIVE ParseMembers(_, _, _)
RECURSIVE ParseElements(_, _, _)
ParseValue(s, i) ==
  LET j == SkipWhitespace(s, i)
      e == FirstNotIn(s, j, Digits)
      last == IF e = 0 THEN Len(s) ELSE e - 1
  IN  IF j = 0 THEN ParseFailure
      ELSE IF s[j] = "{" THEN ParseMembers(s, j + 1, <<>>)
      ELSE IF s[j] = "[" THEN ParseElements(s, j + 1, <<>>)
      ELSE IF s[j] = "\"" THEN ParseString(s, j)
      ELSE IF s[j] = "null" THEN [ok |-> TRUE, value |-> Null, next |-> j + 1]
      ELSE IF s[j] \in Digits
      THEN IF s[j] = "0" /\ last > j THEN ParseFailure
           ELSE [ok |-> TRUE, value |-> Num(SubSeq(s, j, last)), next |-> last + 1]
      ELSE ParseFailure

\* the members of an object after "{" or ","
ParseMembers(s, i, members) ==
  LET j == SkipWhitespace(s, i)
      key == ParseString(s, j)
      colon == SkipWhitespace(s, key.next)
      val == ParseValue(s, colon + 1)
      after == SkipWhitespace(s, val.next)
  IN  IF j = 0 THEN ParseFailure
      ELSE IF s[j] = "}"
      THEN IF members = <<>> THEN [ok |-> TRUE, value |-> Obj(<<>>), next |-> j + 1]
           ELSE ParseFailure
      ELSE IF s[j] # "\"" \/ ~key.ok THEN ParseFailure
      ELSE IF colon = 0 \/ s[colon] # ":" THEN ParseFailure
      ELSE IF ~val.ok \/ after = 0 THEN ParseFailure
      ELSE IF s[after] = ","
      THEN ParseMembers(s, after + 1, SetMember(members, key.value.v, val.value))
      ELSE IF s[after] = "}"
      THEN [ok |-> TRUE, value |-> Obj(SetMember(members, key.value.v, val.value)),
            next |-> after + 1]
      ELSE ParseFailure

\* the elements of an array after "[" or ","
ParseElements(s, i, elems) ==
  LET j == SkipWhitespace(s, i)
      val == ParseValue(s, i)
      after == SkipWhitespace(s, val.next)
  IN  IF j = 0 THEN ParseFailure
      ELSE IF s[j] = "]"
      THEN IF elems = <<>> THEN [ok |-> TRUE, value |-> Arr(<<>>), next |-> j + 1]
           ELSE ParseFailure
      ELSE IF ~val.ok \/ after = 0 THEN ParseFailure
      ELSE IF s[after] = "," THEN ParseElements(s, after + 1, Append(elems, val.value))
      ELSE IF s[after] = "]"
      THEN [ok |-> TRUE, value |-> Arr(Append(elems, val.value)), next |-> after + 1]
      ELSE ParseFailure

\* JSON.parse(raw): the value, or ok = FALSE where JSON.parse throws
JsonParse(raw) ==
  LET r == ParseValue(raw, 1)
  IN  IF r.ok /\ SkipWhitespace(raw, r.next) = 0
      THEN [ok |-> TRUE, value |-> r.value]
      ELSE [ok |-> FALSE, value |-> Undefined]

\* scores: a set of [path, score] pairs, one per path, a score in hundredths
\* (100 is 1.0); scores[path] is <<>> for undefined and <<n>> for the number n
ScoreAt(scores, path) ==
  IF \E e \in scores : e.path = path
  THEN <<(CHOOSE e \in scores : e.path = path).score>>
  ELSE <<>>

resolveScore(path, scores) ==
  IF ScoreAt(scores, path) # <<>> THEN ScoreAt(scores, path)
  ELSE ScoreAt(scores, StripIndices(path))

getScoreColor(score) ==
  IF score = 100 THEN "#28a745"
  ELSE IF score >= 70 THEN "#fd7e14"
  ELSE IF score >= 50 THEN "#ffc107"
  ELSE "#dc3545"

(***************************************************************************)
(* isFieldExcluded (documentUtils.ts).                                     *)
(***************************************************************************)
\* s.replace(/\./g, '/')
DotsToSlashes(s) == [i \in 1..Len(s) |-> IF s[i] = "." THEN "/" ELSE s[i]]

\* s.replace(/\[(\d+)\]/g, '/$1')
RECURSIVE IndicesToSegments(_)
IndicesToSegments(s) ==
  IF s = <<>> THEN <<>>
  ELSE LET e == FirstNotIn(s, 2, Digits)
       IN  IF Head(s) = "[" /\ e > 2 /\ s[e] = "]"
           THEN <<"/">> \o SubSeq(s, 2, e - 1) \o IndicesToSegments(Drop(s, e + 1))
           ELSE <<Head(s)>> \o IndicesToSegments(Tail(s))

JsonPointerOf(fieldPath) == <<"/">> \o IndicesToSegments(DotsToSlashes(fieldPath))

\* path.replace(/\/\d+/g, ''): every "/" followed by digits, with those digits
RECURSIVE normalizeForWildcard(_)
normalizeForWildcard(s) ==
  IF s = <<>> THEN <<>>
  ELSE IF Head(s) = "/" /\ Len(s) >= 2 /\ s[2] \in Digits
  THEN LET e == FirstNotIn(s, 2, Digits)
       IN  IF e = 0 THEN <<>> ELSE normalizeForWildcard(Drop(s, e))
  ELSE <<Head(s)>> \o normalizeForWildcard(Tail(s))

StartsWith(s, prefix) == Len(s) >= Len(prefix) /\ SubSeq(s, 1, Len(prefix)) = prefix

\* excludedPath.replace(/\//g, '\\/')
RECURSIVE EscapeSlashes(_)
EscapeSlashes(s) ==
  IF s = <<>> THEN <<>>
  ELSE (IF Head(s) = "/" THEN <<"\\", "/">> ELSE <<Head(s)>>) \o EscapeSlashes(Tail(s))

\* the callback of excludedFields.some: "true", "false", or "throw" when
\* new RegExp rejects the pattern made from excludedPath
ExcludedBy(jsonPointer, excludedPath) ==
  LET regexSrc == <<"^">> \o EscapeSlashes(excludedPath) \o <<"$">>
  IN  IF jsonPointer = excludedPath THEN "true"
      ELSE IF StartsWith(jsonPointer, excludedPath \o <<"/">>) THEN "true"
      ELSE IF normalizeForWildcard(jsonPointer) = normalizeForWildcard(excludedPath) THEN "true"
      ELSE IF \/ Includes(excludedPath, <<"/", "0", "/">>)
              \/ Includes(excludedPath, <<"/", "1", "/">>)
              \/ Includes(excludedPath, <<"/", "2", "/">>) THEN "false"
      ELSE IF ~RegExpCompiles(regexSrc) THEN "throw"
      ELSE IF RegExpTest(regexSrc, normalizeForWildcard(jsonPointer)) THEN "true"
      ELSE "false"

RECURSIVE SomeExcluded(_, _, _)
SomeExcluded(jsonPointer, excludedFields, i) ==
  IF i > Len(excludedFields) THEN "false"
  ELSE LET r == ExcludedBy(jsonPointer, excludedFields[i])
       IN  IF r = "false" THEN SomeExcluded(jsonPointer, excludedFields, i + 1) ELSE r

ExcludedOutcome(fieldPath, excludedFields) ==
  IF Len(excludedFields) = 0 THEN "false"
  ELSE SomeExcluded(JsonPointerOf(fieldPath), excludedFields, 1)

isFieldExcluded(fieldPath, excludedFields) ==
  ExcludedOutcome(fieldPath, excludedFields) = "true"

(***************************************************************************)
(* renderJsonScore: the classification of one key k of an object node.     *)
(***************************************************************************)
\* the literal /medications\.medications\[(\d+)\]\./ of the walk
MedicationsRe ==
  <<"medications", "\\", ".", "medications", "\\", "[", "\\", "d", "+", "\\", "]", "\\", ".">>

\* full.match(MedicationsRe): position of the leftmost match, 0 for null
MedicationsMatch(full) ==
  LET hits == {i \in 1..Len(full) : MatchHere(MedicationsRe, Drop(full, i))}
  IN  IF hits = {} THEN 0 ELSE Least(hits)

\* currentRootData?.medications?.medications?.[index] for the index in full
MedicationOf(full, rootData) ==
  LET index == parseInt(Drop(full, MedicationsMatch(full) + 4))
  IN  GetIndex(Get(Get(rootData, <<"medications">>), <<"medications">>), index)

\* a === b for a JSON value a and a string b
StrictEqualsString(a, b) == a.t = "str" /\ a.v = b

\* does the entry set the highlight (and break the loop) for the leaf v at full
EntryApplies(entry, full, v, rootData) ==
  LET valStr == toLowerCase(StringOf(v))
      parts == Split(entry.bracketValue, "|")
      dosage == parts[1]
      expectedValue == parts[2]
      medication == MedicationOf(full, rootData)
  IN  /\ RegExpTest(entry.basePathRe, full)
      /\ IF Includes(entry.bracketValue, <<"|">>)
         THEN /\ MedicationsMatch(full) > 0
              /\ Truthy(medication)
              /\ StrictEqualsString(Get(medication, <<"dosage">>), dosage)
              /\ valStr = toLowerCase(expectedValue)
         ELSE IF MedicationsMatch(full) > 0
              THEN /\ Truthy(medication)
                   /\ StrictEqualsString(Get(medication, <<"dosage">>), entry.bracketValue)
              ELSE valStr = toLowerCase(entry.bracketValue)

\* the loop without its break: the last entry that applies sets the highlight
RECURSIVE ValueBasedFrom_Last(_, _, _, _, _)
ValueBasedFrom_Last(valueBased, i, full, v, rootData) ==
  IF i > Len(valueBased) THEN "none"
  ELSE LET later == ValueBasedFrom_Last(valueBased, i + 1, full, v, rootData)
       IN  IF later # "none" THEN later
           ELSE IF EntryApplies(valueBased[i], full, v, rootData) THEN valueBased[i].type
           ELSE "none"

\* the for loop over mismatchInfo.valueBased, from entry i on
RECURSIVE ValueBasedFrom(_, _, _, _, _)
ValueBasedFrom(valueBased, i, full, v, rootData) ==
  IF i > Len(valueBased) THEN "none"
  ELSE IF EntryApplies(valueBased[i], full, v, rootData) THEN valueBased[i].type
  ELSE ValueBasedFrom(valueBased, i + 1, full, v, rootData)

\* "First: value-based (bracketed) matches"
ValueBasedHighlight(mismatchInfo, full, v, rootData) ==
  IF v.t \notin {"undef", "null"} /\ ~TypeofObject(v)
  THEN ValueBasedFrom(mismatchInfo.valueBased, 1, full, v, rootData)
  ELSE "none"

\* the two lookups in the other order: the index-stripped key first
PathMapHighlight_StrippedFirst(pathMap, full) ==
  LET normalizedFull == StripIndices(full)
  IN  IF normalizedFull \in DOMAIN pathMap THEN pathMap[normalizedFull]
      ELSE IF full \in DOMAIN pathMap THEN pathMap[full]
      ELSE "none"

\* "Fallback: exact / normalized pathMap matches"
PathMapHighlight(pathMap, full) ==
  LET normalizedFull == StripIndices(full)
  IN  IF full \in DOMAIN pathMap THEN pathMap[full]
      ELSE IF normalizedFull \in DOMAIN pathMap THEN pathMap[normalizedFull]
      ELSE "none"

\* the pathMap lookups before the value-based entries
HighlightOf_PathMapFirst(mismatchInfo, full, v, rootData) ==
  LET byPath == PathMapHighlight(mismatchInfo.pathMap, full)
  IN  IF byPath # "none" THEN byPath ELSE ValueBasedHighlight(mismatchInfo, full, v, rootData)

HighlightOf(mismatchInfo, full, v, rootData) ==
  LET byValue == ValueBasedHighlight(mismatchInfo, full, v, rootData)
  IN  IF byValue # "none" THEN byValue ELSE PathMapHighlight(mismatchInfo.pathMap, full)

\* the excluded test after the highlight tests
KeyStyle_HighlightFirst(fieldIsExcluded, highlight, score, valuesAreIdentical) ==
  IF highlight = "FN" THEN "FN"
  ELSE IF highlight = "FP" THEN "FP"
  ELSE IF fieldIsExcluded THEN "excluded"
  ELSE IF score = <<>> \/ score = <<100>> \/ valuesAreIdentical THEN "match"
  ELSE "plain"

\* "Key styling"
KeyStyle(fieldIsExcluded, highlight, score, valuesAreIdentical) ==
  IF fieldIsExcluded THEN "excluded"
  ELSE IF highlight = "FN" THEN "FN"
  ELSE IF highlight = "FP" THEN "FP"
  ELSE IF score = <<>> \/ score = <<100>> \/ valuesAreIdentical THEN "match"
  ELSE "plain"

\* without the test score === 1.0
ValueStyle_NoPerfectScore(fieldIsExcluded, highlight, score, valuesAreIdentical) ==
  IF fieldIsExcluded THEN [cls |-> "excluded", color |-> ""]
  ELSE IF highlight = "FN" THEN [cls |-> "FN", color |-> ""]
  ELSE IF highlight = "FP" THEN [cls |-> "FP", color |-> ""]
  ELSE IF score = <<>> \/ valuesAreIdentical THEN [cls |-> "match", color |-> ""]
  ELSE [cls |-> "partial", color |-> getScoreColor(score[1])]

\* "Value styling"; a partial match carries the colour of its score
ValueStyle(fieldIsExcluded, highlight, score, valuesAreIdentical) ==
  IF fieldIsExcluded THEN [cls |-> "excluded", color |-> ""]
  ELSE IF highlight = "FN" THEN [cls |-> "FN", color |-> ""]
  ELSE IF highlight = "FP" THEN [cls |-> "FP", color |-> ""]
  ELSE IF score = <<>> \/ score = <<100>> \/ valuesAreIdentical
  THEN [cls |-> "match", color |-> ""]
  ELSE [cls |-> "partial", color |-> getScoreColor(score[1])]

\* `${path}.${k}` or k
FullPath(path, k) == IF path # <<>> THEN path \o <<".">> \o k ELSE k

\* [...new Set(keys)]: the first occurrence of each key, in order
RECURSIVE Unique(_)
Unique(keys) ==
  IF keys = <<>> THEN <<>>
  ELSE LET front == Unique(SubSeq(keys, 1, Len(keys) - 1))
           last == keys[Len(keys)]
       IN  IF \E i \in 1..Len(front) : front[i] = last THEN front ELSE Append(front, last)

\* allKeys of an object node
AllKeys(data, groundTruthData, path, showMissingKeys) ==
  LET dataKeys == ObjectKeys(data)
      gtAtPath == IF path # <<>> THEN getValueAtPath(groundTruthData, path)
                  ELSE groundTruthData
      gtKeys == IF Truthy(gtAtPath) /\ gtAtPath.t = "obj" THEN ObjectKeys(gtAtPath) ELSE <<>>
  IN  IF showMissingKeys THEN Unique(dataKeys \o gtKeys) ELSE dataKeys

\* everything the walk computes for the key k of the object data at path
FieldView(data, k, path, scores, mismatchInfo, groundTruthData, rootData, excludedFields) ==
  LET v == Get(data, k)
      full == FullPath(path, k)
      score == resolveScore(full, scores)
      highlight == HighlightOf(mismatchInfo, full, v, rootData)
      gtValue == getValueAtPath(groundTruthData, full)
      valuesAreIdentical == JsonStringify(v) = JsonStringify(gtValue)
      fieldIsExcluded == isFieldExcluded(full, excludedFields)
  IN  [full |-> full, key |-> k, value |-> v, highlight |-> highlight,
       score |-> score, identical |-> valuesAreIdentical, excluded |-> fieldIsExcluded,
       keyStyle |-> KeyStyle(fieldIsExcluded, highlight, score, valuesAreIdentical),
       valueStyle |-> ValueStyle(fieldIsExcluded, highlight, score, valuesAreIdentical)]

(***************************************************************************)
(* Inputs: mismatch strings as the evaluator writes them, and strings that *)
(* are not descriptors.                                                    *)
(***************************************************************************)
Descriptor(tag, path) == <<"[", tag, "]", " ">> \o path \o <<":", " ", "detail">>

MedsPath == <<"medications", ".", "medications">>

\* "[FP] medications.medications[500mg].med_sig[Daily]: ..."
SemanticFP ==
  Descriptor("FP", MedsPath \o <<"[", "5", "0", "0", "mg", "]", ".", "med_sig", "[", "Daily", "]">>)

\* "[FP] medications.medications[|500mg|].med_sig[Daily]: ..."
CompoundFP ==
  Descriptor("FP", MedsPath \o <<"[", "|", "5", "0", "0", "mg", "|", "]", ".", "med_sig",
                                  "[", "Daily", "]">>)

\* "[FN] medications.medications[|500mg|].med_sig: ..."
PipeOnlyFN ==
  Descriptor("FN", MedsPath \o <<"[", "|", "5", "0", "0", "mg", "|", "]", ".", "med_sig">>)

\* "[FN] medications.medications[||].dosage[750mg]: ..."
PlaceholderFN ==
  Descriptor("FN", MedsPath \o <<"[", "|", "|", "]", ".", "dosage", "[", "7", "5", "0", "mg", "]">>)

\* "[FP] patient.name[Jane]: ..."
BracketFP == Descriptor("FP", <<"patient", ".", "name", "[", "Jane", "]">>)

\* "[FN] allergy.allergies[0].name: ..."
AllergyFN == Descriptor("FN", <<"allergy", ".", "allergies", "[", "0", "]", ".", "name">>)

\* "[FN] patient.name: ..." and "[FP] patient.name: ..."
PatientFN == Descriptor("FN", <<"patient", ".", "name">>)

PatientFP == Descriptor("FP", <<"patient", ".", "name">>)

\* "[FP] medications.medications.dosage: ..."
DosageFP == Descriptor("FP", MedsPath \o <<".", "dosage">>)

\* "[FN] medications.medications[1].dosage: ..."
DosageAt1FN == Descriptor("FN", MedsPath \o <<"[", "1", "]", ".", "dosage">>)

\* "[FP] medications.medications[||].dosage: ..."
DosageAnyFP == Descriptor("FP", MedsPath \o <<"[", "|", "|", "]", ".", "dosage">>)

\* strings that are not "[FP|FN] path: detail"
NoTag == <<"patient", ".", "name", ":", " ", "detail">>

NoSpace == <<"[", "FP", "]", "patient", ".", "name", ":", " ", "detail">>

NoColon == <<"[", "FN", "]", " ", "patient", ".", "name">>

\* "note [FP] patient.name: detail": a tag that is not at the start
LateTag == <<"note", " ">> \o PatientFP

\* "[FN] medications.medications[|500mg|].med_sig[Daily]: ..." and the same for 750mg
CompoundFN ==
  Descriptor("FN", MedsPath \o <<"[", "|", "5", "0", "0", "mg", "|", "]", ".", "med_sig",
                                  "[", "Daily", "]">>)

Compound750FN ==
  Descriptor("FN", MedsPath \o <<"[", "|", "7", "5", "0", "mg", "|", "]", ".", "med_sig",
                                  "[", "Daily", "]">>)

\* "[FN] medications.medications.med_sig: ..."
MedSigFN == Descriptor("FN", MedsPath \o <<".", "med_sig">>)

\* "[FN] allergy.allergies[|Penicillin|].severity[High]: ..."
AllergyCompoundFN ==
  Descriptor("FN", <<"allergy", ".", "allergies", "[", "|", "Penicillin", "|", "]", ".",
                     "severity", "[", "High", "]">>)

\* "[fp] patient.name: detail" and "[Fn] patient.name: detail"
LowerFP == Descriptor("fp", <<"patient", ".", "name">>)

MixedFN == Descriptor("Fn", <<"patient", ".", "name">>)

\* "[fn] note [FP] patient.name: detail": two tags of different kinds
TwoTags == <<"[", "fn", "]", " ", "note", " ">> \o PatientFP

ParserPool ==
  {SemanticFP, CompoundFP, PipeOnlyFN, PlaceholderFN, BracketFP, AllergyFN, PatientFN,
   PatientFP, DosageFP, DosageAt1FN, DosageAnyFP, NoTag, NoSpace, NoColon, LateTag,
   LowerFP, MixedFN, TwoTags}

\* all sequences over S of length at most n
SeqsUpTo(S, n) == UNION {[1..k -> S] : k \in 0..n}

(***************************************************************************)
(* Inputs: documents, score maps and excluded-field lists.                 *)
(***************************************************************************)
Pair(k, c) == [k |-> k, c |-> c]

D500 == <<"5", "0", "0", "mg">>

D750 == <<"7", "5", "0", "mg">>

\* one element of medications.medications
Med(dosage, sig) ==
  Obj(<<Pair(<<"dosage">>, Str(dosage)), Pair(<<"med_sig">>, Str(<<sig>>))>>)

\* {medications: {medications: [...]}}
MedsDoc(elems) ==
  Obj(<<Pair(<<"medications">>, Obj(<<Pair(<<"medications">>, Arr(elems))>>))>>)

\* {allergy: {allergies: [...]}}
AllergyDoc(elems) ==
  Obj(<<Pair(<<"allergy">>, Obj(<<Pair(<<"allergies">>, Arr(elems))>>))>>)

Allergy(name) == Obj(<<Pair(<<"name">>, Str(<<name>>))>>)

\* {patient: {name: ...}} and {patient: {name: ..., age: 1}}
PatientDoc(name) == Obj(<<Pair(<<"patient">>, Obj(<<Pair(<<"name">>, Str(<<name>>))>>))>>)

PatientAgeDoc(name) ==
  Obj(<<Pair(<<"patient">>,
             Obj(<<Pair(<<"name">>, Str(<<name>>)), Pair(<<"age">>, Num(<<"1">>))>>))>>)

\* {rows: [[elem]]}: an array of arrays
RowsDoc(elem) == Obj(<<Pair(<<"rows">>, Arr(<<Arr(<<elem>>)>>))>>)

\* {name: ...} and {name: ..., age: 1}
Cell(name) == Obj(<<Pair(<<"name">>, Str(<<name>>))>>)

CellAge(name) == Obj(<<Pair(<<"name">>, Str(<<name>>)), Pair(<<"age">>, Num(<<"1">>))>>)

\* "500MG"
D500Upper == <<"5", "0", "0", "MG">>

\* {name: ..., severity: ...}
AllergySeverity(name, severity) ==
  Obj(<<Pair(<<"name">>, Str(<<name>>)), Pair(<<"severity">>, Str(<<severity>>))>>)

\* an element without med_sig
DosageOnly(dosage) == Obj(<<Pair(<<"dosage">>, Str(dosage))>>)

\* arrays of at most MaxArrayLen elements {dosage: "500mg", med_sig: "Daily"}, at
\* most one of them replaced by another element
MedsArrays ==
  LET base(n) == [i \in 1..n |-> Med(D500, "Daily")]
      others == {Med(D750, "Daily"), DosageOnly(D500)}
  IN  {base(n) : n \in 0..MaxArrayLen}
        \cup UNION {{[base(n) EXCEPT ![i] = e] : i \in 1..n, e \in others} : n \in 1..MaxArrayLen}

MedsDocs == {MedsDoc(e) : e \in MedsArrays}

OtherDocs ==
  {AllergyDoc(<<>>), AllergyDoc(<<Allergy("Penicillin")>>),
   PatientDoc("Jane"), PatientDoc("Bob"), PatientAgeDoc("Jane"), RowsDoc(Cell("Jane"))}

(***************************************************************************)
(* The component: buildMismatchInfo for the document's mismatch list, then *)
(* renderJsonScore for the ground-truth panel (counterpart: the extracted  *)
(* data, showMissingKeys = true) and for the API-response panel            *)
(* (counterpart: the ground truth, showMissingKeys = false).  Between two   *)
(* renders the handlers of the ground-truth editor run, and each state     *)
(* change they make starts the next render.                                *)
(***************************************************************************)
VARIABLES
  doc,             \* the open document of the documents list: groundTruth,
                   \* mismatches, scores, apiResponses, the extractionTypes
                   \* of its API responses, iteration_scores and
                   \* iteration_mismatches
  selectedIteration,   \* the dashboard's selectedIteration, one for all documents
  isRunningEvaluation, \* the dashboard's isRunningEvaluation
  currentEvaluationId, \* the dashboard's currentEvaluationId, 0 for null
  progressPercent,     \* the displayed progress
  runs,            \* the clicks on the Start button so far
  starting,        \* runEvaluation requests awaiting their response
  polls,           \* getEvaluationResult requests awaiting their response
  timers,          \* pending 3-second timers that hide the progress bar
  backend,         \* completed_iterations of each evaluation the backend runs
  server,          \* the ground truth stored by the backend
  editingGroundTruth, \* the edit buffer of the document, <<>> when not set
  isEditing,       \* the document is in editing mode
  requests,        \* save requests awaiting their response
  lastAlert,       \* the message of the last alert(), "" before the first
  returned,        \* the buildMismatchInfo calls that returned: argument and result
  mismatches,      \* currentIterationMismatches (input)
  groundTruth,     \* filteredGroundTruth (input)
  extractedData,   \* getExtractedData(apiResponse) (input)
  scores,          \* currentIterationScores (input)
  excludedFields,  \* the excludedFields prop (input)
  pc,              \* "build", "gt", "api", "done" or "threw"
  idx,             \* forEach: number of mismatch strings processed
  mismatchInfo,    \* the MismatchInfo built so far
  stack,           \* pending renderJsonScore calls and object nodes in progress
  visited          \* the fields classified so far, in order

vars ==
  <<mismatches, groundTruth, extractedData, scores, excludedFields,
    pc, idx, mismatchInfo, stack, visited,
    doc, server, editingGroundTruth, isEditing, requests, lastAlert, returned,
    selectedIteration, isRunningEvaluation, currentEvaluationId, progressPercent,
    runs, starting, polls, timers, backend>>

inputs == <<mismatches, groundTruth, extractedData, scores, excludedFields>>

\* the state of an evaluation run and of its progress bar
evaluation ==
  <<isRunningEvaluation, currentEvaluationId, progressPercent, runs, starting, polls, timers,
    backend>>

\* the state of the editor, of the documents list and of the dashboard
session ==
  <<doc, server, editingGroundTruth, isEditing, requests, lastAlert,
    selectedIteration, evaluation>>

\* what renderJsonScore writes to its arguments: nothing
WalkEffects_CachesScore ==
  /\ scores' = scores \cup {[path |-> <<>>, score |-> 100]}
  /\ UNCHANGED <<mismatches, groundTruth, extractedData, excludedFields, mismatchInfo>>

WalkEffects == UNCHANGED <<inputs, mismatchInfo>>

\* the locals pathMap and valueBased of a buildMismatchInfo call, whatever the
\* previous call left
NewCall_Reuse(previous) == previous

NewCall(previous) == EmptyMismatchInfo

\* the arguments of the panel's renderJsonScore call
PanelData == IF pc = "gt" THEN groundTruth ELSE extractedData

PanelCounterpart == IF pc = "gt" THEN extractedData ELSE groundTruth

PanelShowMissingKeys == pc = "gt"

\* a pending call renderJsonScore(data, ..., path, ...); at is the position of
\* data in the rendered document as a sequence of steps (a record of the walk that
\* the code does not keep: the code knows the position only as the string path)
Call(data, path, at) ==
  [data |-> data, path |-> path, at |-> at, keys |-> <<>>, entered |-> FALSE]

KeyStep(k) == [key |-> k, index |-> -1]

IndexStep(i) == [key |-> <<>>, index |-> i]

\* an API response of a document, with the data the extraction returned
ApiResponse(data) == Obj(<<Pair(<<"extracted_data">>, data)>>)

\* getExtractedData: the extracted_data of an API response, {} without one
getExtractedData(apiResponse) ==
  IF Truthy(apiResponse) /\ Truthy(Get(apiResponse, <<"extracted_data">>))
  THEN Get(apiResponse, <<"extracted_data">>)
  ELSE Obj(<<>>)

\* doc.apiResponses[selectedIteration] || doc.apiResponses[0] || {}
shownResponse(d, iteration) ==
  IF iteration < Len(d.apiResponses) THEN d.apiResponses[iteration + 1]
  ELSE IF Len(d.apiResponses) > 0 THEN d.apiResponses[1]
  ELSE Obj(<<>>)

\* currentIterationScores: the score map of the selected iteration when the
\* document has one, its overall scores otherwise
currentIterationScores(d, iteration) ==
  IF Truthy(d.iteration_scores) /\ iteration < Len(d.iteration_scores.v)
  THEN d.iteration_scores.v[iteration + 1]
  ELSE d.scores

\* currentIterationMismatches: the mismatch list of the selected iteration
\* when the document has one, its general list otherwise
currentIterationMismatches(d, iteration) ==
  IF Truthy(d.iteration_mismatches) /\ iteration < Len(d.iteration_mismatches.v)
  THEN d.iteration_mismatches.v[iteration + 1]
  ELSE d.mismatches

\* the first render of a document that the backend just delivered, with an
\* API response that asks for every section of its ground truth
Start ==
  /\ pc = "build"
  /\ idx = 0
  /\ mismatchInfo = EmptyMismatchInfo
  /\ stack = <<>>
  /\ visited = <<>>
  /\ doc = [groundTruth |-> groundTruth, mismatches |-> mismatches,
            extractionTypes |-> ObjectKeys(groundTruth),
            apiResponses |-> <<ApiResponse(extractedData)>>, scores |-> scores,
            iteration_scores |-> Arr(<<>>), iteration_mismatches |-> Arr(<<>>)]
  /\ selectedIteration = 0
  /\ isRunningEvaluation = FALSE
  /\ currentEvaluationId = 0
  /\ progressPercent = 0
  /\ runs = 0
  /\ starting = 0
  /\ polls = <<>>
  /\ timers = 0
  /\ backend = <<>>
  /\ server = groundTruth
  /\ editingGroundTruth = <<>>
  /\ isEditing = FALSE
  /\ requests = <<>>
  /\ lastAlert = ""
  /\ returned = {}

\* one iteration of mismatches.forEach
BuildStep ==
  /\ pc = "build"
  /\ idx < Len(mismatches)
  /\ mismatchInfo' = ProcessMismatch(mismatches[idx + 1], mismatchInfo)
  /\ idx' = idx + 1
  /\ UNCHANGED <<inputs, pc, stack, visited, session, returned>>

\* buildMismatchInfo returns; the ground-truth panel starts to render: the
\* text area in editing mode, the annotated tree when there is a ground truth
BuildReturn ==
  /\ pc = "build"
  /\ idx = Len(mismatches)
  /\ pc' = "gt"
  /\ stack' = IF isEditing \/ ~Truthy(doc.groundTruth) THEN <<>>
              ELSE <<Call(groundTruth, <<>>, <<>>)>>
  /\ returned' = returned \cup {[argument |-> mismatches, result |-> mismatchInfo]}
  /\ UNCHANGED <<inputs, idx, mismatchInfo, visited, session>>

\* the calls for the elements of an array, in order
ElementCalls(data, path, at) ==
  [i \in 1..Len(data.v) |->
     Call(data.v[i], path \o <<"[">> \o IndexStr(i - 1) \o <<"]">>, Append(at, IndexStep(i - 1)))]

\* renderJsonScore entered with the call on top of the stack
RenderCall ==
  /\ pc \in {"gt", "api"}
  /\ stack # <<>>
  /\ ~Head(stack).entered
  /\ LET top == Head(stack)
         allKeys == AllKeys(top.data, PanelCounterpart, top.path, PanelShowMissingKeys)
     IN  stack' =
           IF ~TypeofObject(top.data) \/ top.data.t = "null" THEN Tail(stack)
           ELSE IF top.data.t = "arr" THEN ElementCalls(top.data, top.path, top.at) \o Tail(stack)
           ELSE IF allKeys = <<>> THEN Tail(stack)
           ELSE <<[top EXCEPT !.keys = allKeys, !.entered = TRUE]>> \o Tail(stack)
  /\ WalkEffects
  /\ UNCHANGED <<pc, idx, visited, session, returned>>

\* the body of allKeys.map for the next key of the object on top of the stack
VisitField ==
  /\ pc \in {"gt", "api"}
  /\ stack # <<>>
  /\ Head(stack).entered
  /\ LET top == Head(stack)
         k == Head(top.keys)
         view == FieldView(top.data, k, top.path, scores, mismatchInfo,
                           PanelCounterpart, PanelData, excludedFields)
         rest == IF Tail(top.keys) = <<>> THEN Tail(stack)
                 ELSE <<[top EXCEPT !.keys = Tail(top.keys)]>> \o Tail(stack)
     IN  IF ExcludedOutcome(FullPath(top.path, k), excludedFields) = "throw"
         THEN /\ pc' = "threw"
              /\ stack' = <<>>
              /\ visited' = visited
         ELSE /\ pc' = pc
              /\ visited' = Append(visited, [panel |-> pc, at |-> Append(top.at, KeyStep(k)),
                                              view |-> view])
              /\ stack' = IF TypeofObject(view.value)
                          THEN <<Call(view.value, view.full, Append(top.at, KeyStep(k)))>> \o rest
                          ELSE rest
  /\ WalkEffects
  /\ UNCHANGED <<idx, session, returned>>

\* the panel's renderJsonScore returns
PanelReturn ==
  /\ pc \in {"gt", "api"}
  /\ stack = <<>>
  /\ pc' = IF pc = "gt" THEN "api" ELSE "done"
  /\ stack' = IF pc = "gt" THEN <<Call(extractedData, <<>>, <<>>)>> ELSE <<>>
  /\ UNCHANGED <<inputs, idx, mismatchInfo, visited, session, returned>>

Next == BuildStep \/ BuildReturn \/ RenderCall \/ VisitField \/ PanelReturn

\* parsedEditingGroundTruth: the parsed edit buffer; threw tells that the
\* exception of JSON.parse left the render
parsedEditingGroundTruth(raw) ==
  IF raw # <<>>
  THEN [threw |-> FALSE,
        value |-> IF JsonParse(raw).ok THEN JsonParse(raw).value ELSE Obj(<<>>)]
  ELSE [threw |-> FALSE, value |-> Obj(<<>>)]

\* the component renders the document d with the edit buffer raw and the
\* given selectedIteration: the locals of the render are computed and
\* buildMismatchInfo is called
RenderAt(d, raw, iteration) ==
  /\ pc' = IF parsedEditingGroundTruth(raw).threw THEN "threw" ELSE "build"
  /\ idx' = 0
  /\ mismatchInfo' = NewCall(mismatchInfo)
  /\ stack' = <<>>
  /\ visited' = <<>>
  /\ mismatches' = currentIterationMismatches(d, iteration)
  /\ groundTruth' = filterGroundTruthByTypes(d.groundTruth, d.extractionTypes)
  /\ extractedData' = getExtractedData(shownResponse(d, iteration))
  /\ scores' = currentIterationScores(d, iteration)
  /\ UNCHANGED excludedFields

Render(d, raw) == RenderAt(d, raw, selectedIteration)

\* the Edit button, shown when there is a ground truth and no editor
handleEditClick ==
  /\ pc = "done"
  /\ Truthy(doc.groundTruth)
  /\ ~isEditing
  /\ editingGroundTruth' = IF Truthy(doc.groundTruth) THEN StringifyPretty(doc.groundTruth, 0)
                            ELSE <<"{", "}">>
  /\ isEditing' = TRUE
  /\ Render(doc, editingGroundTruth')
  /\ UNCHANGED <<doc, server, requests, lastAlert, returned, selectedIteration, evaluation>>

\* a ground truth with a section that the API response did not ask for
EditedDoc ==
  Obj(<<Pair(<<"allergy">>, Obj(<<Pair(<<"allergies">>, Arr(<<>>))>>)),
        Pair(<<"patient">>, Obj(<<Pair(<<"name">>, Str(<<"Bob">>))>>))>>)

\* the texts typed into the text area: nothing, a blank, a document without
\* its last brace, and the document
EditBuffers ==
  {<<>>, <<" ">>,
   SubSeq(JsonStringify(EditedDoc), 1, Len(JsonStringify(EditedDoc)) - 1),
   JsonStringify(EditedDoc)}

\* onChange of the text area
handleEditGroundTruth ==
  /\ pc = "done"
  /\ isEditing
  /\ \E value \in EditBuffers :
       /\ editingGroundTruth' = value
       /\ Render(doc, value)
  /\ UNCHANGED <<doc, server, isEditing, requests, lastAlert, returned,
                 selectedIteration, evaluation>>

\* the checks of handleSaveGroundTruth before the request: the alert shown, ""
\* when the buffer passes
SaveValidation_NoParseCheck(raw) ==
  IF raw = <<>> THEN "Ground truth cannot be empty." ELSE ""

SaveValidation(raw) ==
  IF raw = <<>> THEN "Ground truth cannot be empty."
  ELSE IF ~JsonParse(raw).ok THEN "Invalid JSON"
  ELSE ""

\* the Save button, up to the await of fetch: the request carries the parsed
\* buffer, and the handler keeps the documents list of the render it belongs to
handleSaveGroundTruth ==
  /\ pc = "done"
  /\ isEditing
  /\ IF SaveValidation(editingGroundTruth) # ""
     THEN /\ lastAlert' = SaveValidation(editingGroundTruth)
          /\ UNCHANGED requests
     ELSE /\ Len(requests) < MaxRequests
          /\ requests' = Append(requests, [content |-> JsonParse(editingGroundTruth).value,
                                            documents |-> doc])
          /\ UNCHANGED lastAlert
  /\ UNCHANGED <<inputs, pc, idx, mismatchInfo, stack, visited,
                 doc, server, editingGroundTruth, isEditing, returned,
                 selectedIteration, evaluation>>

\* a sequence without its i-th element
Without(seq, i) == SubSeq(seq, 1, i - 1) \o SubSeq(seq, i + 1, Len(seq))

\* the response of a save request arrives and handleSaveGroundTruth resumes
SaveResponse ==
  /\ pc = "done"
  /\ \E i \in 1..Len(requests), ok \in BOOLEAN :
       /\ requests' = Without(requests, i)
       /\ IF ok
          THEN /\ server' = requests[i].content
               /\ doc' = [requests[i].documents EXCEPT !.groundTruth = requests[i].content]
               /\ isEditing' = FALSE
               /\ Render(doc', editingGroundTruth)
               /\ UNCHANGED lastAlert
          ELSE /\ lastAlert' = "Failed to save"
               /\ UNCHANGED <<inputs, pc, idx, mismatchInfo, stack, visited,
                              doc, server, isEditing>>
  /\ UNCHANGED <<editingGroundTruth, returned, selectedIteration, evaluation>>

\* the Cancel button
CancelClick ==
  /\ pc = "done"
  /\ isEditing
  /\ isEditing' = FALSE
  /\ Render(doc, editingGroundTruth)
  /\ UNCHANGED <<doc, server, editingGroundTruth, requests, lastAlert, returned,
                 selectedIteration, evaluation>>

\* the mismatch lists an evaluation delivers
EvaluatedLists == {<<>>, <<PatientFN>>, <<CompoundFP, PatientFN>>}

\* loadEvaluationData: the dashboard replaces the documents list by the
\* backend's, with the stored ground truth and freshly computed mismatches
loadEvaluationData ==
  /\ pc = "done"
  /\ \E list \in EvaluatedLists :
       /\ doc' = [doc EXCEPT !.groundTruth = server, !.mismatches = list]
       /\ Render(doc', editingGroundTruth)
  /\ UNCHANGED <<server, editingGroundTruth, isEditing, requests, lastAlert, returned,
                 selectedIteration, evaluation>>

NextEdit ==
  \/ Next
  \/ handleEditClick
  \/ handleEditGroundTruth
  \/ handleSaveGroundTruth
  \/ SaveResponse
  \/ CancelClick
  \/ loadEvaluationData

\* every mismatch list over the parser pool, with one document pair
InitParse ==
  /\ mismatches \in SeqsUpTo(ParserPool, MaxMismatches)
  /\ groundTruth = PatientDoc("Jane")
  /\ extractedData = PatientDoc("Bob")
  /\ scores = {}
  /\ excludedFields = <<>>
  /\ Start

SpecParse == InitParse /\ [][Next]_vars

\* the extracted documents tried against the ground truth gt
ExtractedFor(gt) ==
  {gt, MedsDoc(<<Med(D500, "Daily")>>), AllergyDoc(<<>>), PatientAgeDoc("Bob"),
   RowsDoc(CellAge("Jane"))}

WalkPool == {SemanticFP, CompoundFP, AllergyFN, DosageFP, DosageAt1FN}

\* mismatch lists over the walk pool, with every document pair
InitWalk ==
  /\ mismatches \in SeqsUpTo(WalkPool, MaxMismatches)
  /\ groundTruth \in MedsDocs \cup OtherDocs
  /\ extractedData \in ExtractedFor(groundTruth)
  /\ scores = {}
  /\ excludedFields = <<>>
  /\ Start

SpecWalk == InitWalk /\ [][Next]_vars

ScorePaths ==
  {<<"patient", ".", "name">>,
   MedsPath \o <<"[", "0", "]", ".", "med_sig">>,
   MedsPath \o <<".", "med_sig">>,
   <<"patient">>}

\* 1.0, 0.8, 0.6 and 0.2 in hundredths
ScoreValues == {100, 80, 60, 20}

\* score maps with at most one entry, and one with an indexed and a stripped key
ScoreMaps ==
  {{}} \cup {{[path |-> p, score |-> n]} : p \in ScorePaths, n \in ScoreValues}
       \cup {{[path |-> MedsPath \o <<"[", "0", "]", ".", "med_sig">>, score |-> 100],
              [path |-> MedsPath \o <<".", "med_sig">>, score |-> 60]}}

\* excluded-field lists, as JSON pointers
ExcludedLists ==
  {<<>>,
   << <<"/", "patient", "/", "name">> >>,
   << <<"/", "medications", "/", "medications", "/", "med_sig">> >>,
   << <<"/", "medications">>, <<"/", "patient">> >>}

StylePool == {PatientFN, CompoundFP}

StylePairs ==
  {<<PatientDoc("Jane"), PatientDoc("Jane")>>,
   <<PatientDoc("Jane"), PatientAgeDoc("Bob")>>}
    \cup {<<MedsDoc([i \in 1..n |-> Med(D500, IF i = n THEN last ELSE "Daily")]),
             MedsDoc(<<Med(D500, "Daily")>>)>> : n \in 1..MaxArrayLen, last \in {"Daily", "Weekly"}}

\* every score map and excluded-field list, with a few lists and documents
InitStyle ==
  /\ mismatches \in SeqsUpTo(StylePool, MaxMismatches)
  /\ \E pair \in StylePairs : groundTruth = pair[1] /\ extractedData = pair[2]
  /\ scores \in ScoreMaps
  /\ excludedFields \in ExcludedLists
  /\ Start

SpecStyle == InitStyle /\ [][Next]_vars

\* descriptors of value rules and of the pathMap key of the same leaf
RulesPool == {CompoundFP, CompoundFN, Compound750FN, MedSigFN, AllergyCompoundFN, BracketFP}

\* arrays of at most MaxArrayLen elements with dosage 750mg, the last one replaced
\* by an element with dosage "500mg" or "500MG" and med_sig "Daily" or "DAILY"
RulesDocs ==
  {MedsDoc([i \in 1..n |-> IF i = n THEN Med(d, sig) ELSE Med(D750, "Daily")]) :
     n \in 1..MaxArrayLen, d \in {D500, D500Upper}, sig \in {"Daily", "DAILY"}}
    \cup {AllergyDoc(<<AllergySeverity("Penicillin", "High")>>), PatientDoc("Jane")}

\* lists of value-rule descriptors, each document rendered against itself
InitRules ==
  /\ mismatches \in SeqsUpTo(RulesPool, MaxMismatches)
  /\ groundTruth \in RulesDocs
  /\ extractedData = groundTruth
  /\ scores = {}
  /\ excludedFields = <<>>
  /\ Start

SpecRules == InitRules /\ [][Next]_vars

\* {x: {items: [{meta: {k: "v"}, name: "n"}, ...]}} with n elements
ItemsDoc(n) ==
  Obj(<<Pair(<<"x">>,
             Obj(<<Pair(<<"items">>,
                        Arr([i \in 1..n |->
                               Obj(<<Pair(<<"meta">>, Obj(<<Pair(<<"k">>, Str(<<"v">>))>>)),
                                     Pair(<<"name">>, Str(<<"n">>))>>)]))>>))>>)

\* excluded-field lists over the fields of ItemsDoc, two of them with an entry
\* that holds an opening parenthesis
ItemsExcludedLists ==
  {<< <<"/", "x">> >>,
   << <<"/", "x", "/", "items">> >>,
   << <<"/", "x", "/", "items", "/", "meta">> >>,
   << <<"/", "x", "/", "items", "/", "name">> >>,
   << <<"/", "x", "/", "items", "/", "name">>, <<"/", "x", "/", "items", "/", "meta", "/", "k">> >>,
   << <<"/", "x", "/", "(", "items">> >>,
   << <<"/", "x">>, <<"/", "x", "/", "(", "items">> >>}

\* documents with objects inside array elements, with every excluded-field list
InitExclude ==
  /\ mismatches \in SeqsUpTo({PatientFN, BracketFP}, MaxMismatches)
  /\ groundTruth \in {ItemsDoc(n) : n \in 1..MaxArrayLen}
  /\ extractedData \in {ItemsDoc(n) : n \in 0..1}
  /\ scores = {}
  /\ excludedFields \in ItemsExcludedLists
  /\ Start

SpecExclude == InitExclude /\ [][Next]_vars

\* an evaluated document whose ground truth the user edits and saves
InitEdit ==
  /\ mismatches \in EvaluatedLists
  /\ groundTruth = PatientDoc("Jane")
  /\ extractedData = PatientDoc("Bob")
  /\ scores = {}
  /\ excludedFields = <<>>
  /\ Start

SpecEdit == InitEdit /\ [][NextEdit]_vars

(***************************************************************************)
(* SchemaFieldSelector: the check boxes of the schema tree.  toggleField   *)
(* changes the selector's excludeFields, which the dashboard hands to the  *)
(* viewer as excludedFields, and the viewer renders again.                 *)
(***************************************************************************)
\* the schema shown: an object with a field b and a field bc, and an array of
\* objects that hold an object
Schema ==
  Obj(<<Pair(<<"a">>,
             Obj(<<Pair(<<"b">>, Str(<<"string">>)),
                   Pair(<<"b", "c">>, Obj(<<Pair(<<"d">>, Str(<<"string">>))>>))>>)),
        Pair(<<"x">>,
             Obj(<<Pair(<<"items">>,
                        Arr(<<Obj(<<Pair(<<"meta">>, Obj(<<Pair(<<"k">>, Str(<<"string">>))>>)),
                                    Pair(<<"name">>, Str(<<"string">>))>>)>>))>>))>>)

\* the concatenation of a sequence of sequences
RECURSIVE Flatten(_)
Flatten(seqs) == IF seqs = <<>> THEN <<>> ELSE Head(seqs) \o Flatten(Tail(seqs))

\* addChildFields(obj, path): the paths it pushes to newExcluded, in order
RECURSIVE addChildFields(_, _, _)
addChildFields(obj, path, jsonPointer) ==
  LET wanted(childPath) ==
        IF StartsWith(childPath, jsonPointer) /\ childPath # jsonPointer
        THEN <<childPath>> ELSE <<>>
  IN  IF obj.t = "obj"
      THEN Flatten([i \in 1..Len(obj.v) |->
                      LET childPath == path \o <<"/">> \o obj.v[i].k
                      IN  wanted(childPath)
                            \o (IF obj.v[i].c.t \in {"obj", "arr"}
                                THEN addChildFields(obj.v[i].c, childPath, jsonPointer)
                                ELSE <<>>)])
      ELSE IF obj.t = "arr" /\ Len(obj.v) > 0
      THEN Flatten([i \in 1..Len(obj.v) |->
                      IF obj.v[i].t = "obj"
                      THEN Flatten([j \in 1..Len(obj.v[i].v) |->
                                      wanted(path \o <<"/">> \o IndexStr(i - 1) \o <<"/">>
                                                  \o obj.v[i].v[j].k)])
                      ELSE <<>>])
      ELSE <<>>

\* the new excludeFields that toggleField(jsonPointer) computes from prev
toggleField(prev, jsonPointer) ==
  IF \E i \in 1..Len(prev) : prev[i] = jsonPointer
  THEN SelectSeq(prev, LAMBDA field : ~StartsWith(field, jsonPointer))
  ELSE Unique(Append(prev, jsonPointer)
                \o Flatten([i \in 1..Len(Schema.v) |->
                               addChildFields(Schema.v[i].c, <<"/">> \o Schema.v[i].k,
                                              jsonPointer)]))

\* renderField: the pointers of the check boxes drawn for value at jsonPointer
RECURSIVE CheckBoxes(_, _)
CheckBoxes(value, jsonPointer) ==
  {jsonPointer}
    \cup (IF value.t = "arr" /\ Len(value.v) > 0 /\ value.v[1].t \in {"obj", "arr"}
          THEN {jsonPointer \o <<"/">> \o ObjectKeys(value.v[1])[j] :
                  j \in 1..Len(ObjectKeys(value.v[1]))}
          ELSE IF value.t = "obj"
          THEN UNION {CheckBoxes(value.v[i].c, jsonPointer \o <<"/">> \o value.v[i].k) :
                        i \in 1..Len(value.v)}
          ELSE {})

\* isFieldDisabled: a parent of the pointer is excluded
isFieldDisabled(jsonPointer, excludeFields) ==
  LET pathParts == SelectSeq(Split(jsonPointer, "/"), LAMBDA part : part # <<>>)
      parentPath(n) == Flatten([i \in 1..n |-> <<"/">> \o pathParts[i]])
  IN  \E n \in 1..(Len(pathParts) - 1) :
        \E i \in 1..Len(excludeFields) : excludeFields[i] = parentPath(n)

\* a click on an enabled check box: toggleField, onChange hands the list to the
\* dashboard, and the viewer renders with it
toggleFieldClick ==
  /\ pc = "done"
  /\ \E jsonPointer \in CheckBoxes(Schema, <<>>) \ {<<>>} :
       /\ ~isFieldDisabled(jsonPointer, excludedFields)
       /\ excludedFields' = toggleField(excludedFields, jsonPointer)
  /\ pc' = "build"
  /\ idx' = 0
  /\ mismatchInfo' = NewCall(mismatchInfo)
  /\ stack' = <<>>
  /\ visited' = <<>>
  /\ UNCHANGED <<mismatches, groundTruth, extractedData, scores, session, returned>>

NextSelect == Next \/ toggleFieldClick

\* a document of the schema's shape, nothing excluded yet
InitSelect ==
  /\ mismatches = <<PatientFN>>
  /\ groundTruth = ItemsDoc(1)
  /\ extractedData = ItemsDoc(1)
  /\ scores = {}
  /\ excludedFields = <<>>
  /\ Start

SpecSelect == InitSelect /\ [][NextSelect]_vars

(***************************************************************************)
(* The document header and the iteration buttons: calculateDocumentScore,  *)
(* the documents that loadEvaluationData makes of the backend's, and the    *)
(* dashboard's selectedIteration, which every document's view reads.       *)
(***************************************************************************)
\* countNonNullFields: the primitive values that are neither null nor
\* undefined under the properties of an object or the elements of an array
RECURSIVE countNonNullFields(_)
RECURSIVE CountEntries(_, _)
countNonNullFields(obj) ==
  IF ~Truthy(obj) \/ obj.t \notin {"obj", "arr"} THEN 0
  ELSE CountEntries(obj, 1)

\* the loop over Object.entries(obj), from the i-th entry on
CountEntries(obj, i) ==
  IF i > Len(obj.v) THEN 0
  ELSE LET value == IF obj.t = "obj" THEN obj.v[i].c ELSE obj.v[i]
           here == CASE value.t \in {"null", "undef"} -> 0
                     [] value.t = "obj" -> countNonNullFields(value)
                     [] value.t = "arr" ->
                          LET RECURSIVE Items(_)
                              Items(j) == IF j > Len(value.v) THEN 0
                                          ELSE countNonNullFields(value.v[j]) + Items(j + 1)
                          IN  Items(1)
                     [] OTHER -> 1
       IN  here + CountEntries(obj, i + 1)

\* the mismatch strings of a list that contain [FN] or [FP]
RECURSIVE CountFnFp(_)
CountFnFp(list) ==
  IF list = <<>> THEN 0
  ELSE (IF Includes(Head(list), <<"[", "FN", "]">>) \/ Includes(Head(list), <<"[", "FP", "]">>)
        THEN 1 ELSE 0) + CountFnFp(Tail(list))

\* the sum of CountFnFp over the lists of iteration_mismatches
RECURSIVE CountAllIterations(_)
CountAllIterations(lists) ==
  IF lists = <<>> THEN 0 ELSE CountFnFp(Head(lists)) + CountAllIterations(Tail(lists))

\* calculateDocumentScore, in hundredths rounded down: the non-null fields
\* of the last API response over these plus the false negatives and false
\* positives counted
calculateDocumentScore(d) ==
  IF Len(d.apiResponses) = 0 THEN 0
  ELSE LET bestResponse == d.apiResponses[Len(d.apiResponses)]
           data == IF Truthy(Get(bestResponse, <<"extracted_data">>))
                   THEN Get(bestResponse, <<"extracted_data">>) ELSE Obj(<<>>)
           totalNonNullFields == countNonNullFields(data)
           totalFnFp == IF Truthy(d.iteration_mismatches)
                        THEN CountAllIterations(d.iteration_mismatches.v)
                        ELSE CountFnFp(d.mismatches)
       IN  IF totalNonNullFields = 0 /\ totalFnFp = 0 THEN 100
           ELSE IF totalNonNullFields = 0 THEN 0
           ELSE (100 * totalNonNullFields) \div (totalNonNullFields + totalFnFp)

\* x || [] for a list of the backend's document
OrEmpty(x) == IF Truthy(x) THEN x ELSE Arr(<<>>)

\* the document that loadEvaluationData makes of a document of the backend
mapDocument(b) ==
  [groundTruth |-> b.ground_truth, mismatches |-> b.mismatches,
   extractionTypes |-> ObjectKeys(b.ground_truth),
   apiResponses |-> b.api_responses, scores |-> b.scores,
   iteration_scores |-> OrEmpty(b.iteration_scores),
   iteration_mismatches |-> OrEmpty(b.iteration_mismatches)]

NameScore(n) == {[path |-> <<"patient", ".", "name">>, score |-> n]}

\* documents of the backend, all with the ground truth of Jane: one response
\* and only the general lists; two responses with a list for each, the
\* second with a false negative; one response that is right; one response
\* with a false positive
BackendDocs ==
  {[ground_truth |-> PatientDoc("Jane"),
    api_responses |-> <<ApiResponse(PatientDoc("Bob"))>>,
    scores |-> NameScore(20), mismatches |-> <<PatientFN>>,
    iteration_scores |-> Undefined, iteration_mismatches |-> Undefined],
   [ground_truth |-> PatientDoc("Jane"),
    api_responses |-> <<ApiResponse(PatientDoc("Jane")), ApiResponse(PatientDoc("Bob"))>>,
    scores |-> NameScore(60), mismatches |-> <<PatientFN>>,
    iteration_scores |-> Arr(<<NameScore(100), NameScore(20)>>),
    iteration_mismatches |-> Arr(<< <<>>, <<PatientFN>> >>)],
   [ground_truth |-> PatientDoc("Jane"),
    api_responses |-> <<ApiResponse(PatientDoc("Jane"))>>,
    scores |-> NameScore(100), mismatches |-> <<>>,
    iteration_scores |-> Arr(<<NameScore(100)>>),
    iteration_mismatches |-> Arr(<< <<>> >>)],
   [ground_truth |-> PatientDoc("Jane"),
    api_responses |-> <<ApiResponse(PatientDoc("Bob"))>>,
    scores |-> NameScore(20), mismatches |-> <<PatientFP>>,
    iteration_scores |-> Arr(<<NameScore(20)>>),
    iteration_mismatches |-> Arr(<< <<PatientFP>> >>)]}

\* the documents list after loadEvaluationData
MappedDocuments == {mapDocument(b) : b \in BackendDocs}

\* the previous-iteration button of the open document
previousIteration ==
  /\ pc = "done"
  /\ Len(doc.apiResponses) > 1
  /\ selectedIteration # 0
  /\ selectedIteration' = IF selectedIteration - 1 > 0 THEN selectedIteration - 1 ELSE 0
  /\ RenderAt(doc, editingGroundTruth, selectedIteration')
  /\ UNCHANGED <<doc, server, editingGroundTruth, isEditing, requests, lastAlert, returned,
                 evaluation>>

\* the next-iteration button of the open document
nextIteration ==
  /\ pc = "done"
  /\ Len(doc.apiResponses) > 1
  /\ selectedIteration # Len(doc.apiResponses) - 1
  /\ selectedIteration' = IF Len(doc.apiResponses) - 1 < selectedIteration + 1
                          THEN Len(doc.apiResponses) - 1 ELSE selectedIteration + 1
  /\ RenderAt(doc, editingGroundTruth, selectedIteration')
  /\ UNCHANGED <<doc, server, editingGroundTruth, isEditing, requests, lastAlert, returned,
                 evaluation>>

\* a click on the header of another document of the list: it becomes the
\* open document
setSelectedDocument ==
  /\ pc = "done"
  /\ \E d \in MappedDocuments \ {doc} :
       /\ doc' = d
       /\ RenderAt(d, editingGroundTruth, selectedIteration)
  /\ UNCHANGED <<server, editingGroundTruth, isEditing, requests, lastAlert, returned,
                 selectedIteration, evaluation>>

NextIterate == Next \/ previousIteration \/ nextIteration \/ setSelectedDocument

\* the dashboard after loadEvaluationData, with one of the documents open
InitIterate ==
  /\ doc \in MappedDocuments
  /\ selectedIteration = 0
  /\ mismatches = currentIterationMismatches(doc, 0)
  /\ groundTruth = filterGroundTruthByTypes(doc.groundTruth, doc.extractionTypes)
  /\ extractedData = getExtractedData(shownResponse(doc, 0))
  /\ scores = currentIterationScores(doc, 0)
  /\ excludedFields = <<>>
  /\ pc = "build"
  /\ idx = 0
  /\ mismatchInfo = EmptyMismatchInfo
  /\ stack = <<>>
  /\ visited = <<>>
  /\ server = doc.groundTruth
  /\ editingGroundTruth = <<>>
  /\ isEditing = FALSE
  /\ requests = <<>>
  /\ lastAlert = ""
  /\ returned = {}
  /\ isRunningEvaluation = FALSE
  /\ currentEvaluationId = 0
  /\ progressPercent = 0
  /\ runs = 0
  /\ starting = 0
  /\ polls = <<>>
  /\ timers = 0
  /\ backend = <<>>

SpecIterate == InitIterate /\ [][NextIterate]_vars

(***************************************************************************)
(* An evaluation run: startEvaluation, the polling effect and the timer    *)
(* that hides the progress bar.  The backend answers a request as it is    *)
(* sent, and the response arrives at any later time.                       *)
(***************************************************************************)
\* total_iterations of an evaluation
TotalIterations == 2

\* the clicks on the Start button in a session
MaxRuns == 2

\* the getEvaluationResult requests in flight at a time
MaxPolls == 2

\* the mismatches that an evaluation finds for the document
RunResult == <<PatientFN>>

\* (completed_iterations / total_iterations) * 100 of a result
ProgressOf(result) ==
  IF TotalIterations > 0 THEN (result.completed_iterations * 100) \div TotalIterations ELSE 0

\* the status of a result
StatusOf(result) ==
  IF result.completed_iterations = TotalIterations THEN "completed" ELSE "running"

\* startEvaluation up to its await: the Start button, disabled during a run
startEvaluation ==
  /\ pc = "done"
  /\ ~isRunningEvaluation
  /\ runs < MaxRuns
  /\ runs' = runs + 1
  /\ isRunningEvaluation' = TRUE
  /\ progressPercent' = 0
  /\ starting' = starting + 1
  /\ UNCHANGED <<inputs, pc, idx, mismatchInfo, stack, visited, returned,
                 doc, server, editingGroundTruth, isEditing, requests, lastAlert,
                 selectedIteration, currentEvaluationId, polls, timers, backend>>

\* runEvaluation answers and startEvaluation resumes: the backend runs a new
\* evaluation, whose state is asked for once, or the request failed
startResponse ==
  /\ pc = "done"
  /\ starting > 0
  /\ starting' = starting - 1
  /\ \E ok \in BOOLEAN :
       IF ok
       THEN /\ Len(polls) < MaxPolls
            /\ backend' = Append(backend, 0)
            /\ currentEvaluationId' = Len(backend')
            /\ polls' = Append(polls, [initial |-> TRUE, evaluation_id |-> Len(backend'),
                                        progressPercent |-> progressPercent,
                                        completed_iterations |-> 0])
            /\ UNCHANGED <<isRunningEvaluation, progressPercent>>
       ELSE /\ isRunningEvaluation' = FALSE
            /\ progressPercent' = 0
            /\ UNCHANGED <<backend, currentEvaluationId, polls>>
  /\ UNCHANGED <<inputs, pc, idx, mismatchInfo, stack, visited, returned,
                 doc, server, editingGroundTruth, isEditing, requests, lastAlert,
                 selectedIteration, runs, timers>>

\* a tick of the polling interval, up to its await: the callback belongs to
\* the render that set the interval up and keeps that render's progressPercent
intervalTick ==
  /\ pc = "done"
  /\ currentEvaluationId # 0
  /\ isRunningEvaluation
  /\ Len(polls) < MaxPolls
  /\ polls' = Append(polls, [initial |-> FALSE, evaluation_id |-> currentEvaluationId,
                              progressPercent |-> progressPercent,
                              completed_iterations |-> backend[currentEvaluationId]])
  /\ UNCHANGED <<inputs, pc, idx, mismatchInfo, stack, visited, returned,
                 doc, server, editingGroundTruth, isEditing, requests, lastAlert,
                 selectedIteration, isRunningEvaluation, currentEvaluationId,
                 progressPercent, runs, starting, timers, backend>>

\* the response of a getEvaluationResult request arrives: the initial poll of
\* startEvaluation sets the progress; a poll of the interval sets it under
\* its condition and, when the evaluation is finished, ends the run, starts
\* the timer and loads the result
pollResponse ==
  /\ pc = "done"
  /\ \E i \in 1..Len(polls) :
       LET result == polls[i]
       IN  /\ polls' = Without(polls, i)
           /\ IF result.initial
              THEN /\ progressPercent' = ProgressOf(result)
                   /\ UNCHANGED <<inputs, pc, idx, mismatchInfo, stack, visited, doc,
                                  isRunningEvaluation, currentEvaluationId, timers>>
              ELSE IF StatusOf(result) = "completed"
              THEN /\ isRunningEvaluation' = FALSE
                   /\ progressPercent' = ProgressOf(result)
                   /\ timers' = timers + 1
                   /\ currentEvaluationId' = result.evaluation_id
                   /\ doc' = [doc EXCEPT !.groundTruth = server,
                                          !.mismatches = RunResult]
                   /\ Render(doc', editingGroundTruth)
              ELSE /\ progressPercent' =
                        IF ProgressOf(result) > 0 \/ result.progressPercent = 0
                        THEN ProgressOf(result) ELSE progressPercent
                   /\ UNCHANGED <<inputs, pc, idx, mismatchInfo, stack, visited, doc,
                                  isRunningEvaluation, currentEvaluationId, timers>>
  /\ UNCHANGED <<server, editingGroundTruth, isEditing, requests, lastAlert, returned,
                 selectedIteration, runs, starting, backend>>

\* the timer set when a run finished fires, 3 seconds later
hideTimer ==
  /\ pc = "done"
  /\ timers > 0
  /\ timers' = timers - 1
  /\ progressPercent' = 0
  /\ UNCHANGED <<inputs, pc, idx, mismatchInfo, stack, visited, returned,
                 doc, server, editingGroundTruth, isEditing, requests, lastAlert,
                 selectedIteration, isRunningEvaluation, currentEvaluationId,
                 runs, starting, polls, backend>>

\* the backend completes an iteration of an evaluation
backendIteration ==
  /\ \E id \in 1..Len(backend) :
       /\ backend[id] < TotalIterations
       /\ backend' = [backend EXCEPT ![id] = @ + 1]
  /\ UNCHANGED <<inputs, pc, idx, mismatchInfo, stack, visited, returned,
                 doc, server, editingGroundTruth, isEditing, requests, lastAlert,
                 selectedIteration, isRunningEvaluation, currentEvaluationId,
                 progressPercent, runs, starting, polls, timers>>

NextProgress ==
  \/ Next
  \/ startEvaluation
  \/ startResponse
  \/ intervalTick
  \/ pollResponse
  \/ hideTimer
  \/ backendIteration

\* the dashboard with one document of an earlier evaluation
InitProgress ==
  /\ mismatches = <<PatientFN>>
  /\ groundTruth = PatientDoc("Jane")
  /\ extractedData = PatientDoc("Jane")
  /\ scores = {}
  /\ excludedFields = <<>>
  /\ Start

SpecProgress == InitProgress /\ [][NextProgress]_vars

(***************************************************************************)
(* Vocabulary of the properties.                                           *)
(***************************************************************************)
\* the value at a position of a document, followed step by step
RECURSIVE Navigate(_, _)
Navigate(root, at) ==
  IF at = <<>> THEN root
  ELSE Navigate(IF Head(at).index >= 0 THEN GetIndex(root, Head(at).index)
                ELSE Get(root, Head(at).key),
                Tail(at))

\* the dotted path of a position with its array indices, and without them
RECURSIVE IndexedPathOf(_)
IndexedPathOf(at) ==
  IF at = <<>> THEN <<>>
  ELSE LET front == IndexedPathOf(SubSeq(at, 1, Len(at) - 1))
           last == at[Len(at)]
       IN  IF last.index >= 0 THEN front \o <<"[">> \o IndexStr(last.index) \o <<"]">>
           ELSE IF front = <<>> THEN last.key
           ELSE front \o <<".">> \o last.key

KeyPathOf(at) == IndexedPathOf(SelectSeq(at, LAMBDA step : step.index < 0))

VisitedIn(panel) == {i \in 1..Len(visited) : visited[i].panel = panel}

PanelDone(panel) == IF panel = "gt" THEN pc \in {"api", "done"} ELSE pc = "done"

RootOf(panel) == IF panel = "gt" THEN groundTruth ELSE extractedData

CounterpartOf(panel) == IF panel = "gt" THEN extractedData ELSE groundTruth

Range(seq) == {seq[i] : i \in 1..Len(seq)}

HasBracket(path) == \E i \in 1..Len(path) : path[i] \in {"[", "]"}

MedSigAt0 == MedsPath \o <<"[", "0", "]", ".", "med_sig">>

DosageAt1 == MedsPath \o <<"[", "1", "]", ".", "dosage">>

DosageKey == MedsPath \o <<".", "dosage">>

AllergyNameAt0 == <<"allergy", ".", "allergies", "[", "0", "]", ".", "name">>

PatientName == <<"patient", ".", "name">>

\* the highlights given to the fields at the path full in a panel
HighlightsAt(panel, full) ==
  {visited[i].view.highlight : i \in {j \in VisitedIn(panel) : visited[j].view.full = full}}

(***************************************************************************)
(* C1.  Array semantic matching, end to end.                               *)
(***************************************************************************)
\* C1: with the mismatch list ["[FP] medications.medications[500mg].med_sig[Daily]: ..."]
\* and the rendered document {medications:{medications:[{dosage:d, med_sig:"Daily"}]}},
\* the walk classifies the leaf medications.medications[0].med_sig as FP when d is
\* "500mg", and gives it no FP/FN classification when d is "750mg".
C1_ArraySemanticMatching ==
  \A d \in {D500, D750} :
    (/\ PanelDone("gt")
     /\ mismatches = <<SemanticFP>>
     /\ groundTruth = MedsDoc(<<Med(d, "Daily")>>))
    => HighlightsAt("gt", MedSigAt0) = {IF d = D500 THEN "FP" ELSE "none"}

(***************************************************************************)
(* C2.  The general semantic-array form and its precedence.                *)
(***************************************************************************)
\* the path read as <basePath>[<semanticKey>].<fieldName>[<expectedValue>], with
\* basePath free of brackets and semanticKey not wrapped in pipes
GeneralForm(p) ==
  LET n == Len(p)
      o1 == FirstIn(p, 1, {"[", "]"})
      c1 == FirstIn(p, o1 + 1, {"[", "]"})
      o2 == FirstIn(p, c1 + 2, {"[", "]", "."})
      c2 == FirstIn(p, o2 + 1, {"]"})
      ok == /\ o1 > 1 /\ p[o1] = "["
            /\ c1 > o1 + 1 /\ p[c1] = "]"
            /\ ~(p[o1 + 1] = "|" /\ p[c1 - 1] = "|")
            /\ c1 + 2 <= n /\ p[c1 + 1] = "."
            /\ o2 > c1 + 2 /\ p[o2] = "["
            /\ c2 = n /\ c2 > o2 + 1
  IN  IF ok
      THEN [ok |-> TRUE, basePath |-> SubSeq(p, 1, o1 - 1), semanticKey |-> SubSeq(p, o1 + 1, c1 - 1),
            fieldName |-> SubSeq(p, c1 + 2, o2 - 1), expectedValue |-> SubSeq(p, o2 + 1, n - 1)]
      ELSE [ok |-> FALSE, basePath |-> <<>>, semanticKey |-> <<>>, fieldName |-> <<>>,
            expectedValue |-> <<>>]

\* C2: a list of one descriptor whose path has the general semantic-array form
\* yields exactly one value rule and no pathMap key; the rule has the descriptor's
\* kind, the key "<semanticKey>|<expectedValue>", and a pattern that matches
\* <basePath>[n].<fieldName> for every index n.
C2_GeneralSemanticForm ==
  (/\ Len(mismatches) = 1
   /\ idx = 1
   /\ Branch(mismatches[1]) # "skip"
   /\ GeneralForm(RawPath(mismatches[1])).ok)
  => LET g == GeneralForm(RawPath(mismatches[1]))
         rules == mismatchInfo.valueBased
     IN  /\ Len(rules) = 1
         /\ DOMAIN mismatchInfo.pathMap = {}
         /\ rules[1].type = HighlightTypeOf(mismatches[1])
         /\ rules[1].bracketValue = g.semanticKey \o <<"|">> \o g.expectedValue
         /\ \A n \in 0..MaxArrayLen :
              RegExpTest(rules[1].basePathRe,
                         g.basePath \o <<"[">> \o IndexStr(n) \o <<"]", ".">> \o g.fieldName)

(***************************************************************************)
(* C3.  End-to-end false negative.                                         *)
(***************************************************************************)
\* C3: when the mismatch list holds "[FN] allergy.allergies[0].name: ..." and the
\* ground truth is {allergy:{allergies:[{name:"Penicillin"}]}}, the walk of the
\* ground truth visits the leaf allergy.allergies[0].name and classifies it FN,
\* whatever the extracted data (the empty allergies array included).
C3_EndToEndFalseNegative ==
  (/\ PanelDone("gt")
   /\ AllergyFN \in Range(mismatches)
   /\ groundTruth = AllergyDoc(<<Allergy("Penicillin")>>))
  => /\ HighlightsAt("gt", AllergyNameAt0) = {"FN"}
     /\ \A i \in VisitedIn("gt") :
          visited[i].view.full = AllergyNameAt0
          => visited[i].view.keyStyle = "FN" /\ visited[i].view.valueStyle.cls = "FN"

C3_Witness ==
  /\ pc = "done"
  /\ mismatches = <<AllergyFN>>
  /\ groundTruth = AllergyDoc(<<Allergy("Penicillin")>>)
  /\ extractedData = AllergyDoc(<<>>)
  /\ \E i \in VisitedIn("gt") :
       /\ visited[i].view.full = AllergyNameAt0
       /\ visited[i].view.value = Str(<<"Penicillin">>)
       /\ visited[i].view.highlight = "FN"

(***************************************************************************)
(* C4.  Per-descriptor exclusivity.                                        *)
(***************************************************************************)
\* the forEach step that processes a recognized descriptor
RecognizedStep == pc = "build" /\ idx' = idx + 1 /\ Branch(mismatches[idx + 1]) # "skip"

\* the step appends exactly one value rule and leaves pathMap unchanged
AppendsOneRule ==
  /\ Len(mismatchInfo'.valueBased) = Len(mismatchInfo.valueBased) + 1
  /\ SubSeq(mismatchInfo'.valueBased, 1, Len(mismatchInfo.valueBased)) = mismatchInfo.valueBased
  /\ mismatchInfo'.pathMap = mismatchInfo.pathMap

\* the step adds a number of keys in counts to pathMap, changes no key's kind and
\* leaves valueBased unchanged
AddsPathKeys(counts) ==
  /\ mismatchInfo'.valueBased = mismatchInfo.valueBased
  /\ DOMAIN mismatchInfo.pathMap \subseteq DOMAIN mismatchInfo'.pathMap
  /\ \A k \in DOMAIN mismatchInfo.pathMap : mismatchInfo'.pathMap[k] = mismatchInfo.pathMap[k]
  /\ Cardinality(DOMAIN mismatchInfo'.pathMap \ DOMAIN mismatchInfo.pathMap) \in counts

\* C4 as stated: every recognized descriptor either appends exactly one entry to
\* valueBased and leaves pathMap unchanged, or adds one or two keys to pathMap and
\* leaves valueBased unchanged.
C4_OneOrTwoKeys == [][RecognizedStep => (AppendsOneRule \/ AddsPathKeys({1, 2}))]_vars

\* C4 amended: every recognized descriptor either appends exactly one entry to
\* valueBased and leaves pathMap unchanged, or adds at most two keys to pathMap
\* (none when its keys are already there), changes no existing key and leaves
\* valueBased unchanged; no descriptor changes both structures.
C4_Exclusive == [][RecognizedStep => (AppendsOneRule \/ AddsPathKeys({0, 1, 2}))]_vars

C4_Witness ==
  /\ mismatches = <<PatientFN, PatientFP>>
  /\ idx = 2
  /\ DOMAIN mismatchInfo.pathMap = {PatientName}
  /\ mismatchInfo.valueBased = <<>>

(***************************************************************************)
(* C5.  Fallback with first-writer-wins.                                   *)
(***************************************************************************)
\* the pathMap keys that the descriptor m normalises to
PathMapKeysOf(m) ==
  IF Branch(m) = "generic"
  THEN {StripBracketed(RawPath(m), {"]"}), StripBracketed(RawPath(m), Digits \cup {"]"})}
  ELSE {}

\* the first of the processed descriptors that normalises to key
EarliestWriter(key) == Least({j \in 1..idx : key \in PathMapKeysOf(mismatches[j])})

\* C5: after a descriptor whose path has no brackets is processed, pathMap holds
\* its rawPath as a key; and every key of pathMap has the kind of the earliest
\* processed descriptor that normalises to it, whatever later descriptors say.
C5_FirstWriterWins ==
  /\ \A i \in 1..idx :
       (Branch(mismatches[i]) # "skip" /\ ~HasBracket(RawPath(mismatches[i])))
       => RawPath(mismatches[i]) \in DOMAIN mismatchInfo.pathMap
  /\ \A key \in DOMAIN mismatchInfo.pathMap :
       /\ \E j \in 1..idx : key \in PathMapKeysOf(mismatches[j])
       /\ mismatchInfo.pathMap[key] = HighlightTypeOf(mismatches[EarliestWriter(key)])

C5_Witness ==
  /\ mismatches = <<PatientFP, PatientFN>>
  /\ idx = 2
  /\ PatientName \in DOMAIN mismatchInfo.pathMap
  /\ mismatchInfo.pathMap[PatientName] = "FP"

(***************************************************************************)
(* C6.  Exclusion precedence.                                              *)
(***************************************************************************)
\* C6: every visited field whose path is excluded by isFieldExcluded has the muted
\* excluded key style and value style, even when a value rule or a pathMap entry
\* gives its path FP or FN, and whatever its score.
C6_ExclusionPrecedence ==
  \A i \in 1..Len(visited) :
    isFieldExcluded(IndexedPathOf(visited[i].at), excludedFields)
    => /\ visited[i].view.keyStyle = "excluded"
       /\ visited[i].view.valueStyle = [cls |-> "excluded", color |-> ""]

C6_Witness ==
  \E i \in 1..Len(visited) :
    /\ isFieldExcluded(IndexedPathOf(visited[i].at), excludedFields)
    /\ visited[i].view.highlight \in {"FP", "FN"}
    /\ visited[i].view.score # <<>>
    /\ visited[i].view.score # <<100>>
    /\ visited[i].view.keyStyle = "excluded"

(***************************************************************************)
(* C7.  Exact-path lookup order.                                           *)
(***************************************************************************)
\* pathMap[key], "none" when the key is absent
KindAt(key) ==
  IF key \in DOMAIN mismatchInfo.pathMap THEN mismatchInfo.pathMap[key] ELSE "none"

\* C7: a visited field that no value rule matched is classified by
\* pathMap[its fully indexed path] when that key exists, and otherwise by
\* pathMap[its path with every [n] removed]; so a key without indices classifies
\* the field at every index, and an indexed key takes priority over it.
C7_ExactPathLookupOrder ==
  \A i \in 1..Len(visited) :
    LET e == visited[i]
        indexed == IndexedPathOf(e.at)
        stripped == KeyPathOf(e.at)
    IN  ValueBasedHighlight(mismatchInfo, indexed, e.view.value, RootOf(e.panel)) = "none"
        => e.view.highlight =
             IF indexed \in DOMAIN mismatchInfo.pathMap THEN KindAt(indexed) ELSE KindAt(stripped)

C7_Witness ==
  /\ KindAt(DosageKey) = "FP"
  /\ KindAt(DosageAt1) = "FN"
  /\ \E i, j \in VisitedIn("gt") :
       /\ visited[i].view.full = DosageAt1
       /\ visited[i].view.highlight = "FN"
       /\ visited[j].view.full = MedsPath \o <<"[", "0", "]", ".", "dosage">>
       /\ visited[j].view.highlight = "FP"

(***************************************************************************)
(* C8.  Score / identity fallback.                                         *)
(***************************************************************************)
\* equality of two JSON values
RECURSIVE DeepEqual(_, _)
DeepEqual(a, b) ==
  /\ a.t = b.t
  /\ CASE a.t \in {"str", "num"} -> a.v = b.v
       [] a.t = "arr" ->
            /\ Len(a.v) = Len(b.v)
            /\ \A i \in 1..Len(a.v) : DeepEqual(a.v[i], b.v[i])
       [] a.t = "obj" ->
            /\ Len(a.v) = Len(b.v)
            /\ \A i \in 1..Len(a.v) : a.v[i].k = b.v[i].k /\ DeepEqual(a.v[i].c, b.v[i].c)
       [] OTHER -> TRUE

\* scores[path], else scores[path without indices], of the field at a position
ScoreOfPosition(at) ==
  IF ScoreAt(scores, IndexedPathOf(at)) # <<>> THEN ScoreAt(scores, IndexedPathOf(at))
  ELSE ScoreAt(scores, KeyPathOf(at))

\* the field at visited[i] is one that the fallback styles as Match
FallbackMatch(i) ==
  \/ ScoreOfPosition(visited[i].at) = <<>>
  \/ ScoreOfPosition(visited[i].at) = <<100>>
  \/ DeepEqual(visited[i].view.value, Navigate(CounterpartOf(visited[i].panel), visited[i].at))

RECURSIVE ObjectNodes(_, _)
ObjectNodes(x, at) ==
  CASE x.t = "obj" ->
         {at} \cup UNION {ObjectNodes(x.v[i].c, Append(at, KeyStep(x.v[i].k))) : i \in 1..Len(x.v)}
    [] x.t = "arr" ->
         UNION {ObjectNodes(x.v[i], Append(at, IndexStep(i - 1))) : i \in 1..Len(x.v)}
    [] OTHER -> {}

\* the keys the walk of a panel must visit at an object node
KeysToVisit(panel, at) ==
  Range(ObjectKeys(Navigate(RootOf(panel), at)))
    \cup (IF panel = "gt" THEN Range(ObjectKeys(Navigate(CounterpartOf(panel), at))) ELSE {})

\* the visits of a panel to the key k of the node at a position
VisitsOf(panel, at, k) == {i \in VisitedIn(panel) : visited[i].at = Append(at, KeyStep(k))}

\* the keys a panel visited at the node at a position
KeysVisited(panel, at) ==
  {visited[i].view.key : i \in {j \in VisitedIn(panel) :
                                   /\ Len(visited[j].at) = Len(at) + 1
                                   /\ SubSeq(visited[j].at, 1, Len(at)) = at}}

\* C9: once a panel is rendered, at every object node of its document the keys
\* visited are the node's own keys, together with the keys of the counterpart's
\* object at the same position when showMissingKeys is true (the ground-truth
\* panel), each key visited exactly once, a key of the counterpart alone being
\* visited with an absent value.
C9_MissingKeyVisibility ==
  \A panel \in {"gt", "api"} :
    PanelDone(panel)
    => \A at \in ObjectNodes(RootOf(panel), <<>>) :
         /\ KeysVisited(panel, at) = KeysToVisit(panel, at)
         /\ \A k \in KeysToVisit(panel, at) :
              /\ Cardinality(VisitsOf(panel, at, k)) = 1
              /\ \A i \in VisitsOf(panel, at, k) :
                   DeepEqual(visited[i].view.value, Navigate(RootOf(panel), Append(at, KeyStep(k))))

(***************************************************************************)
(* C10.  Malformed descriptors are skipped.                                *)
(***************************************************************************)
\* the string begins with a [FP] or [FN] tag, whitespace, a colon-free path and a
\* colon: ^\[(FP|FN)\]\s+[^:]+:
BeginsWithDescriptor(m) ==
  /\ Len(m) >= 6
  /\ m[1] = "["
  /\ m[2] \in {"FP", "FN"}
  /\ m[3] = "]"
  /\ m[4] \in Whitespace
  /\ FirstIn(m, 1, {":"}) >= 6

\* C10: the forEach step of a string that does not begin with a [FP] or [FN] tag
\* followed by whitespace, a colon-free path and a colon leaves pathMap and
\* valueBased as they were, and moves on to the next string.
C10_MalformedSkipped ==
  [][(pc = "build" /\ idx < Len(mismatches) /\ ~BeginsWithDescriptor(mismatches[idx + 1]))
     => (mismatchInfo' = mismatchInfo /\ idx' = idx + 1 /\ pc' = "build")]_vars

(***************************************************************************)
(* C11.  Case-insensitive tag.                                             *)
(***************************************************************************)
\* the string begins with a tag written in any letter case
BeginsWithTag(m) == Len(m) >= 3 /\ m[1] = "[" /\ ToUpperTok(m[2]) \in {"FP", "FN"} /\ m[3] = "]"

\* the same string with its leading tag in upper case
WithUpperTag(m) == IF BeginsWithTag(m) THEN [m EXCEPT ![2] = ToUpperTok(m[2])] ELSE m

\* C11: a descriptor whose tag is written in lower or mixed case is recognized
\* and leaves the same MismatchInfo as the same descriptor with the tag in upper
\* case: once the list is processed, the MismatchInfo is the one of the list with
\* every leading tag in upper case.
C11_CaseInsensitiveTag ==
  (pc = "build" /\ idx = Len(mismatches))
  => mismatchInfo = buildMismatchInfo([i \in 1..Len(mismatches) |-> WithUpperTag(mismatches[i])])

(***************************************************************************)
(* C20.  Legacy compound form.                                             *)
(***************************************************************************)
\* the path read as <basePath>[|X|].<fieldName>[Y], basePath and fieldName free of
\* brackets
LegacyCompoundForm(p) ==
  LET n == Len(p)
      o1 == FirstIn(p, 1, {"[", "]"})
      c1 == FirstIn(p, o1 + 1, {"[", "]"})
      o2 == FirstIn(p, c1 + 2, {"[", "]", "."})
      c2 == FirstIn(p, o2 + 1, {"]"})
      ok == /\ o1 > 1 /\ p[o1] = "["
            /\ c1 > o1 + 3 /\ p[c1] = "]"
            /\ p[o1 + 1] = "|" /\ p[c1 - 1] = "|"
            /\ \A j \in (o1 + 2)..(c1 - 2) : p[j] # "|"
            /\ c1 + 2 <= n /\ p[c1 + 1] = "."
            /\ o2 > c1 + 2 /\ p[o2] = "["
            /\ c2 = n /\ c2 > o2 + 1
  IN  IF ok
      THEN [ok |-> TRUE, basePath |-> SubSeq(p, 1, o1 - 1), X |-> SubSeq(p, o1 + 2, c1 - 2),
            fieldName |-> SubSeq(p, c1 + 2, o2 - 1), Y |-> SubSeq(p, o2 + 1, n - 1)]
      ELSE [ok |-> FALSE, basePath |-> <<>>, X |-> <<>>, fieldName |-> <<>>, Y |-> <<>>]

\* the forEach step that processes a descriptor of the legacy compound form
LegacyCompoundStep ==
  /\ pc = "build"
  /\ idx' = idx + 1
  /\ Branch(mismatches[idx + 1]) # "skip"
  /\ LegacyCompoundForm(RawPath(mismatches[idx + 1])).ok

\* C20: a descriptor whose path is <basePath>[|X|].<fieldName>[Y] adds exactly one
\* value rule, of its kind, with key "X|Y" and a pattern that matches
\* <basePath>[n].<fieldName> for every numeric n (and not the bare
\* <basePath>.<fieldName>); it adds no second rule and no pathMap entry.
C20_LegacyCompoundForm ==
  [][LegacyCompoundStep =>
       LET m == mismatches[idx + 1]
           g == LegacyCompoundForm(RawPath(m))
           n0 == Len(mismatchInfo.valueBased)
           rule == mismatchInfo'.valueBased[n0 + 1]
       IN  /\ Len(mismatchInfo'.valueBased) = n0 + 1
           /\ SubSeq(mismatchInfo'.valueBased, 1, n0) = mismatchInfo.valueBased
           /\ mismatchInfo'.pathMap = mismatchInfo.pathMap
           /\ rule.type = HighlightTypeOf(m)
           /\ rule.bracketValue = g.X \o <<"|">> \o g.Y
           /\ \A index \in {<<"0">>, <<"1">>, <<"7">>, <<"1", "0">>, <<"4", "2">>} :
                RegExpTest(rule.basePathRe,
                           g.basePath \o <<"[">> \o index \o <<"]", ".">> \o g.fieldName)
           /\ ~RegExpTest(rule.basePathRe, g.basePath \o <<".">> \o g.fieldName)
           /\ ~RegExpTest(rule.basePathRe,
                          g.basePath \o <<"[", "x", "]", ".">> \o g.fieldName)]_vars

C20_Witness ==
  /\ mismatches = <<PatientFN, CompoundFP>>
  /\ idx = 2
  /\ Len(mismatchInfo.valueBased) = 1
  /\ mismatchInfo.valueBased[1].bracketValue = D500 \o <<"|", "Daily">>
  /\ DOMAIN mismatchInfo.pathMap = {PatientName}

(***************************************************************************)
(* C13.  First match wins among value rules.                               *)
(***************************************************************************)
\* the value rules a list of descriptors gives, descriptor by descriptor
RECURSIVE RulesInOrder(_)
RulesInOrder(list) ==
  IF list = <<>> THEN <<>>
  ELSE ProcessMismatch(Head(list), EmptyMismatchInfo).valueBased \o RulesInOrder(Tail(list))

\* the value of the visited field is a leaf: neither absent, null nor a container
IsLeaf(e) == e.view.value.t \in {"str", "num"}

\* the rules that match the path of the visited field and whose value condition
\* holds for it
Applying(e) ==
  {j \in 1..Len(mismatchInfo.valueBased) :
     EntryApplies(mismatchInfo.valueBased[j], IndexedPathOf(e.at), e.view.value, RootOf(e.panel))}

\* the rules whose pattern matches the path of the visited field
PatternMatching(e) ==
  {j \in 1..Len(mismatchInfo.valueBased) :
     RegExpTest(mismatchInfo.valueBased[j].basePathRe, IndexedPathOf(e.at))}

\* C13: valueBased keeps the order of the descriptors of the list; and a visited
\* leaf for which one or more value rules match the path and satisfy their value
\* condition has the kind of the earliest of them, whether or not rules before it
\* match the path and fail their value condition.
C13_FirstMatchWins ==
  /\ pc # "build" => mismatchInfo.valueBased = RulesInOrder(mismatches)
  /\ \A i \in 1..Len(visited) :
       (IsLeaf(visited[i]) /\ Applying(visited[i]) # {})
       => visited[i].view.highlight = mismatchInfo.valueBased[Least(Applying(visited[i]))].type

\* an FP rule and after it an FN rule that both apply: the leaf is FP
C13_Witness ==
  \E i \in 1..Len(visited) :
    /\ IsLeaf(visited[i])
    /\ Cardinality(Applying(visited[i])) = 2
    /\ mismatchInfo.valueBased[Least(Applying(visited[i]))].type = "FP"
    /\ mismatchInfo.valueBased[Greatest(Applying(visited[i]))].type = "FN"
    /\ visited[i].view.highlight = "FP"

(***************************************************************************)
(* C15.  Case-insensitive value-rule comparisons.                          *)
(***************************************************************************)
\* the array element that owns the visited field
OwnerOf(e) == Navigate(RootOf(e.panel), SubSeq(e.at, 1, Len(e.at) - 1))

\* two strings equal but for letter case
SameIgnoringCase(a, b) == toLowerCase(a) = toLowerCase(b)

\* C15: with the one compound rule medications.medications[|X|].med_sig[Y], a
\* med_sig leaf of an element of medications.medications whose dosage equals X
\* ignoring letter case and whose value equals Y ignoring letter case has the
\* rule's kind.
C15_CaseInsensitiveRules ==
  (/\ Len(mismatches) = 1
   /\ pc # "build"
   /\ Branch(mismatches[1]) = "compound"
   /\ LegacyCompoundForm(RawPath(mismatches[1])).basePath = MedsPath)
  => LET g == LegacyCompoundForm(RawPath(mismatches[1]))
     IN  \A i \in 1..Len(visited) :
           (/\ IsLeaf(visited[i])
            /\ KeyPathOf(visited[i].at) = g.basePath \o <<".">> \o g.fieldName
            /\ Get(OwnerOf(visited[i]), <<"dosage">>).t = "str"
            /\ SameIgnoringCase(Get(OwnerOf(visited[i]), <<"dosage">>).v, g.X)
            /\ SameIgnoringCase(visited[i].view.value.v, g.Y))
           => visited[i].view.highlight = HighlightTypeOf(mismatches[1])

(***************************************************************************)
(* C18.  Value rules before exact paths.                                   *)
(***************************************************************************)
\* the kind pathMap gives the visited field: the indexed key, else the stripped key
KindByPath(e) ==
  IF IndexedPathOf(e.at) \in DOMAIN mismatchInfo.pathMap THEN KindAt(IndexedPathOf(e.at))
  ELSE KindAt(KeyPathOf(e.at))

\* C18: a visited leaf that a value rule matches (pattern and value condition) has
\* the kind of a rule that matches it, whatever kind pathMap holds for its path;
\* a visited field has the kind of pathMap only when no value rule matches it.
C18_ValueRulesBeforeExactPaths ==
  \A i \in 1..Len(visited) :
    IF IsLeaf(visited[i]) /\ Applying(visited[i]) # {}
    THEN visited[i].view.highlight \in
           {mismatchInfo.valueBased[j].type : j \in Applying(visited[i])}
    ELSE visited[i].view.highlight = KindByPath(visited[i])

C18_Witness ==
  \E i \in 1..Len(visited) :
    /\ IsLeaf(visited[i])
    /\ {mismatchInfo.valueBased[j].type : j \in Applying(visited[i])} = {"FP"}
    /\ KindByPath(visited[i]) = "FN"
    /\ visited[i].view.highlight = "FP"

(***************************************************************************)
(* C19.  Compound rules on any array of objects.                           *)
(***************************************************************************)
\* the element has a field whose value is the string s
HasFieldEqual(element, s) ==
  element.t = "obj" /\ \E j \in 1..Len(element.v) : StrictEqualsString(element.v[j].c, s)

\* C19: with one compound rule <base>[|X|].<field>[Y], for any base path, a leaf
\* <base>[i].<field> whose element at index i of that array in the root document
\* has a sibling field equal to X, and whose value equals Y ignoring letter case,
\* has the rule's kind.
C19_CompoundRulesAnyArray ==
  (/\ Len(mismatches) = 1
   /\ pc # "build"
   /\ Branch(mismatches[1]) = "compound")
  => LET g == LegacyCompoundForm(RawPath(mismatches[1]))
     IN  \A i \in 1..Len(visited) :
           (/\ IsLeaf(visited[i])
            /\ KeyPathOf(visited[i].at) = g.basePath \o <<".">> \o g.fieldName
            /\ Len(visited[i].at) >= 2
            /\ visited[i].at[Len(visited[i].at) - 1].index >= 0
            /\ HasFieldEqual(OwnerOf(visited[i]), g.X)
            /\ SameIgnoringCase(visited[i].view.value.v, g.Y))
           => visited[i].view.highlight = HighlightTypeOf(mismatches[1])

(***************************************************************************)
(* C14.  Excluded subtree.                                                 *)
(***************************************************************************)
\* the segments of a JSON pointer that are not array indices
NamedSegments(pointer) ==
  SelectSeq(Split(Tail(pointer), "/"), LAMBDA seg : \E j \in 1..Len(seg) : seg[j] \notin Digits)

\* the keys on the way to a position, array indices left out
KeysOf(at) == [j \in 1..Len(SelectSeq(at, LAMBDA step : step.index < 0)) |->
                 SelectSeq(at, LAMBDA step : step.index < 0)[j].key]

\* the position is the excluded field or lies beneath it, array indices aside
WithinExcluded(at, pointer) ==
  LET segs == NamedSegments(pointer)
      keys == KeysOf(at)
  IN  Len(segs) <= Len(keys) /\ \A j \in 1..Len(segs) : keys[j] = segs[j]

\* C14: every visited field that is an excluded field or a descendant of one is
\* excluded by isFieldExcluded, array indices on the way aside: excluded
\* /x/items/meta excludes x.items[0].meta and x.items[0].meta.k.
C14_ExcludedSubtree ==
  \A i \in 1..Len(visited) :
    (\E j \in 1..Len(excludedFields) : WithinExcluded(visited[i].at, excludedFields[j]))
    => isFieldExcluded(visited[i].view.full, excludedFields)

(***************************************************************************)
(* C16.  The tree walk leaves its arguments alone.                         *)
(***************************************************************************)
\* C16: no step of renderJsonScore, at any depth of the recursion, changes the
\* rendered document, the counterpart document, the score map, the
\* MismatchInfo or the list of excluded fields.
C16_WalkFrame ==
  [][(pc \in {"gt", "api"})
     => UNCHANGED <<groundTruth, extractedData, scores, mismatchInfo, excludedFields>>]_vars

\* both panels were walked down to the fields of an array element, with a score
\* map, value rules and excluded fields in use
C16_Witness ==
  /\ pc = "done"
  /\ scores # {}
  /\ excludedFields # <<>>
  /\ mismatchInfo.valueBased # <<>>
  /\ \A panel \in {"gt", "api"} :
       \E i \in 1..Len(visited) : visited[i].panel = panel /\ Len(visited[i].at) >= 4

(***************************************************************************)
(* C12.  buildMismatchInfo is a function of its argument.                  *)
(***************************************************************************)
\* C12: the calls of buildMismatchInfo that returned so far, on whatever lists
\* and in whatever order the renders made them, gave the same MismatchInfo for
\* the same list, and no step of a call changes the list it was given.
C12_Determinism ==
  /\ [](\A a, b \in returned : a.argument = b.argument => a.result = b.result)
  /\ [][pc = "build" => mismatches' = mismatches /\ doc' = doc]_vars

\* four renders at least (the first, two after new evaluations, one after the
\* Edit button) called buildMismatchInfo on three lists: one list was given
\* twice, and the other lists before, after or in between
C12_Witness ==
  /\ pc = "done"
  /\ isEditing
  /\ {r.argument : r \in returned} = EvaluatedLists
  /\ \E r \in returned : r.result.valueBased # <<>> /\ r.result.pathMap # <<>>

(***************************************************************************)
(* C17.  An edit buffer that is empty or not JSON.                         *)
(***************************************************************************)
\* the edit buffer is empty or JSON.parse rejects it
InvalidBuffer == editingGroundTruth = <<>> \/ ~JsonParse(editingGroundTruth).ok

\* C17: in editing mode with an empty or invalid buffer, the render does not
\* throw and reads the buffer as an empty object, the fields are classified
\* against the stored ground truth, and a click on Save sends no request,
\* changes neither the document nor the stored ground truth and stays in
\* editing mode.
C17_InvalidJsonWhileEditing ==
  /\ []((isEditing /\ InvalidBuffer)
        => /\ pc # "threw"
           /\ parsedEditingGroundTruth(editingGroundTruth).value = Obj(<<>>)
           /\ groundTruth = filterGroundTruthByTypes(server, doc.extractionTypes))
  /\ [][(isEditing /\ InvalidBuffer /\ handleSaveGroundTruth)
        => /\ requests' = requests
           /\ doc' = doc
           /\ server' = server
           /\ isEditing']_vars

\* Save was clicked on a document without its closing brace: the alert is up,
\* no request is pending, the editor is open and the API panel is classified
C17_Witness ==
  /\ pc = "done"
  /\ isEditing
  /\ editingGroundTruth \in EditBuffers
  /\ Len(editingGroundTruth) > 1
  /\ InvalidBuffer
  /\ lastAlert = "Invalid JSON"
  /\ requests = <<>>
  /\ \E i \in 1..Len(visited) : visited[i].panel = "api"

(***************************************************************************)
(* C21.  Bracket-at-end form.                                              *)
(***************************************************************************)
\* the path read as <base>[<value>]: the last bracket closes the path, its text
\* is not empty and a field name stands before it
TrailingBracketForm(p) ==
  LET n == Len(p)
      opens == {q \in 1..n : p[q] = "["}
      o == IF opens = {} THEN 0 ELSE Greatest(opens)
      ok == /\ o > 1 /\ n > o + 1 /\ p[n] = "]"
            /\ \A j \in (o + 1)..(n - 1) : p[j] # "]"
            /\ p[o - 1] \notin {".", "[", "]"}
  IN  IF ok THEN [ok |-> TRUE, base |-> SubSeq(p, 1, o - 1), value |-> SubSeq(p, o + 1, n - 1)]
      ELSE [ok |-> FALSE, base |-> <<>>, value |-> <<>>]

\* the forEach step that processes a descriptor of the bracket-at-end form that
\* no earlier form matches
TrailingBracketStep ==
  /\ pc = "build"
  /\ idx' = idx + 1
  /\ Branch(mismatches[idx + 1]) # "skip"
  /\ TrailingBracketForm(RawPath(mismatches[idx + 1])).ok
  /\ ~CompoundMatch(RawPath(mismatches[idx + 1])).ok
  /\ ~PipeBracketMatch(RawPath(mismatches[idx + 1])).ok

\* base with its first placeholder replaced by the text by
InPlaceOfPlaceholder(base, by) ==
  SubSeq(base, 1, IndexOf(base, Placeholder) - 1) \o by
    \o SubSeq(base, IndexOf(base, Placeholder) + 4, Len(base))

\* C21: a descriptor whose path is <base>[<value>] and is of no earlier form adds
\* exactly one value rule, of its kind, with key <value>, and no pathMap entry;
\* when base holds the placeholder [||], the rule's pattern matches base with
\* [n] in place of the placeholder for every numeric n, and matches neither base
\* as written, nor base without an index or with a non-numeric one, nor a path
\* with a longer last field.
C21_BracketAtEndForm ==
  [][TrailingBracketStep =>
       LET m == mismatches[idx + 1]
           g == TrailingBracketForm(RawPath(m))
           n0 == Len(mismatchInfo.valueBased)
           rule == mismatchInfo'.valueBased[n0 + 1]
       IN  /\ Len(mismatchInfo'.valueBased) = n0 + 1
           /\ SubSeq(mismatchInfo'.valueBased, 1, n0) = mismatchInfo.valueBased
           /\ mismatchInfo'.pathMap = mismatchInfo.pathMap
           /\ rule.type = HighlightTypeOf(m)
           /\ rule.bracketValue = g.value
           /\ Includes(g.base, Placeholder) =>
                /\ \A index \in {<<"0">>, <<"1">>, <<"7">>, <<"1", "0">>, <<"4", "2">>} :
                     /\ RegExpTest(rule.basePathRe,
                                   InPlaceOfPlaceholder(g.base, <<"[">> \o index \o <<"]">>))
                     /\ ~RegExpTest(rule.basePathRe,
                                    InPlaceOfPlaceholder(g.base, <<"[">> \o index \o <<"]">>)
                                      \o <<"x">>)
                     /\ ~RegExpTest(rule.basePathRe,
                                    <<"x">> \o InPlaceOfPlaceholder(g.base,
                                                                     <<"[">> \o index \o <<"]">>))
                /\ ~RegExpTest(rule.basePathRe, g.base)
                /\ ~RegExpTest(rule.basePathRe, InPlaceOfPlaceholder(g.base, <<>>))
                /\ ~RegExpTest(rule.basePathRe, InPlaceOfPlaceholder(g.base, <<"[", "x", "]">>))
                /\ ~RegExpTest(rule.basePathRe, InPlaceOfPlaceholder(g.base, <<"[", "]">>))]_vars

\* "[FN] medications.medications[||].dosage[750mg]: ..." was processed after a
\* fallback descriptor: one rule with key 750mg, pathMap as the first left it
C21_Witness ==
  /\ mismatches = <<PatientFN, PlaceholderFN>>
  /\ idx = 2
  /\ Len(mismatchInfo.valueBased) = 1
  /\ mismatchInfo.valueBased[1].bracketValue = D750
  /\ mismatchInfo.valueBased[1].type = "FN"
  /\ DOMAIN mismatchInfo.pathMap = {PatientName}

(***************************************************************************)
(* C22.  The walk does not raise.                                          *)
(***************************************************************************)
\* C22: whatever the excluded-field list, the score map and the MismatchInfo,
\* the classification of a field returns and the render does not end in an
\* exception.
C22_WalkNeverRaises == pc # "threw"

(***************************************************************************)
(* C23.  A container exclusion expands to all descendants.                 *)
(***************************************************************************)
\* the fields beneath a schema value: pointer has the array indices as
\* segments, wildcard leaves them out
RECURSIVE FieldsBeneath(_, _, _)
FieldsBeneath(value, pointer, wildcard) ==
  IF value.t = "obj"
  THEN UNION {{[pointer |-> pointer \o <<"/">> \o value.v[i].k,
                wildcard |-> wildcard \o <<"/">> \o value.v[i].k]}
                \cup FieldsBeneath(value.v[i].c, pointer \o <<"/">> \o value.v[i].k,
                                   wildcard \o <<"/">> \o value.v[i].k) :
              i \in 1..Len(value.v)}
  ELSE IF value.t = "arr"
  THEN UNION {FieldsBeneath(value.v[i], pointer \o <<"/">> \o IndexStr(i - 1), wildcard) :
              i \in 1..Len(value.v)}
  ELSE {}

SchemaFields == FieldsBeneath(Schema, <<>>, <<>>)

\* the step is a click on the check box of p
ToggleStep(p) ==
  /\ pc = "done"
  /\ ~isFieldDisabled(p, excludedFields)
  /\ excludedFields' # excludedFields
  /\ excludedFields' = toggleField(excludedFields, p)

\* q is p or lies beneath p, segment by segment
InSubtree(q, p) == q = p \/ StartsWith(q, p \o <<"/">>)

\* C23: after a click excludes p, the excluded list holds p and, for every schema
\* field beneath p at every depth, the field's pointer (with or without the
\* array indices on the way).
C23_ContainerExpansion ==
  [][\A p \in CheckBoxes(Schema, <<>>) \ {<<>>} :
       (ToggleStep(p) /\ p \notin Range(excludedFields))
       => /\ p \in Range(excludedFields')
          /\ \A f \in SchemaFields :
               (f.pointer # p /\ (InSubtree(f.pointer, p) \/ InSubtree(f.wildcard, p)))
               => (f.pointer \in Range(excludedFields') \/ f.wildcard \in Range(excludedFields'))]_vars

(***************************************************************************)
(* C30.  A toggle touches only the field's own subtree.                    *)
(***************************************************************************)
\* C30: a click on the check box of p changes the membership in the excluded
\* list of p and of pointers beneath p only: any other pointer is in the list
\* after the click exactly if it was in it before.
C30_ToggleOwnSubtree ==
  [][\A p \in CheckBoxes(Schema, <<>>) \ {<<>>} :
       ToggleStep(p)
       => \A q \in Range(excludedFields) \cup Range(excludedFields') :
            ~InSubtree(q, p) => (q \in Range(excludedFields') <=> q \in Range(excludedFields))]_vars

(***************************************************************************)
(* C25.  Kind and path come from the same tag.                             *)
(***************************************************************************)
\* C25: every pathMap key and every value rule that a recognized descriptor
\* adds has the kind of the tag that stands immediately before the path it was
\* made from.
C25_KindFromPathTag ==
  [][RecognizedStep =>
       LET m == mismatches[idx + 1]
           kind == ToUpperTok(PathMatch(m).tag)
       IN  /\ \A k \in DOMAIN mismatchInfo'.pathMap \ DOMAIN mismatchInfo.pathMap :
                mismatchInfo'.pathMap[k] = kind
           /\ \A i \in (Len(mismatchInfo.valueBased) + 1)..Len(mismatchInfo'.valueBased) :
                mismatchInfo'.valueBased[i].type = kind]_vars

(***************************************************************************)
(* C24.  Index-specific exact mismatches stay on their index.              *)
(***************************************************************************)
\* the fallback descriptor m reports the field at the path full: it names the
\* path with its indices, or a path without indices that full has beneath it
ReportedFor(m, full) ==
  \/ RawPath(m) = full
  \/ (~HasBracket(RawPath(m)) /\ RawPath(m) = StripIndices(full))

\* C24: when every descriptor of the list is a fallback descriptor and none
\* reports a visited field, the field is not classified FP or FN; so a
\* descriptor for xs[1].f leaves xs[0].f unclassified.
C24_IndexedMismatchOwnIndex ==
  \A i \in 1..Len(visited) :
    (\A j \in 1..Len(mismatches) :
       Branch(mismatches[j]) = "generic" /\ ~ReportedFor(mismatches[j], visited[i].view.full))
    => visited[i].view.highlight \notin {"FP", "FN"}

\* C26: a document with an API response whose header score is 1 has no
\* [FP] or [FN] entry in the mismatch list that its view displays
C26_ScoreAgreesWithList ==
  (Len(doc.apiResponses) > 0 /\ calculateDocumentScore(doc) = 100)
    => CountFnFp(currentIterationMismatches(doc, selectedIteration)) = 0

\* C27: the API response, the score map and the mismatch list shown belong
\* to one iteration of the document, and selectedIteration is the index of
\* one of its API responses
C27_OneIterationPerView ==
  /\ selectedIteration \in 0..(Len(doc.apiResponses) - 1)
  /\ (Len(doc.iteration_scores.v) = Len(doc.apiResponses)
        /\ Len(doc.iteration_mismatches.v) = Len(doc.apiResponses))
       => \E i \in 0..(Len(doc.apiResponses) - 1) :
            /\ extractedData = getExtractedData(doc.apiResponses[i + 1])
            /\ scores = doc.iteration_scores.v[i + 1]
            /\ mismatches = doc.iteration_mismatches.v[i + 1]

\* C28: the documents list that a successful save installs is the list as
\* it is when the response arrives, with the saved ground truth in the
\* document: no change made while the request was in flight is lost
C28_SaveKeepsChanges ==
  [][\A i \in 1..Len(requests) :
       (requests' = Without(requests, i) /\ pc = "done" /\ pc' = "build")
         => doc' = [doc EXCEPT !.groundTruth = requests[i].content]]_vars

\* C29: while an evaluation is running and the displayed progress is above
\* 0, no step sets the displayed progress back to 0
C29_ProgressNotReset ==
  [][(isRunningEvaluation /\ isRunningEvaluation' /\ progressPercent > 0)
       => progressPercent' > 0]_vars

====
